---- MODULE Spec2Model ----
(***************************************************************************)
(* skill-search: the Store (src/db.rs), the Ingestor (src/github.rs), the  *)
(* Indexer (src/index.rs) and the calls src/bin/safe-skill-search.rs makes *)
(* on them, as one state machine.                                          *)
(*                                                                         *)
(* Text is modelled at word level: a string is a sequence of words, a      *)
(* manifest a sequence of lines.  Option<T> is a sequence of length <= 1.  *)
(***************************************************************************)
EXTENDS Integers, Sequences, FiniteSets, TLC

VARIABLES
    skills,            \* table skills, in rowid order (db.rs:31-44)
    sync_state,        \* table sync_state: registry -> Option<(last_sync, etag)>
    last_insert_rowid, \* sqlite3_last_insert_rowid of the open connection
    docs,              \* committed documents of the tantivy index
    mirrors,           \* repos_dir/<registry>: 0 = no mirror, else the revision held
    now,               \* wall clock; the upstream revisions are a function of it
    pc,                \* position inside sync_all_registries, or "idle"
    reg_idx,           \* loop index of `for registry in REGISTRIES`
    attempted,         \* registries sync_registry was called for in this run
    lastCall,          \* the last completed call: op, args, result, old row
    cmd                \* the command the running process was started with, if any

vars == <<skills, sync_state, last_insert_rowid, docs, mirrors, now, pc,
          reg_idx, attempted, lastCall, cmd>>

-----------------------------------------------------------------------------
(* Bounds of the model.                                                    *)

\* the clock runs from 1 to MaxTime
MaxTime == 2

\* largest limit a search is made with
MaxLimit == 2

-----------------------------------------------------------------------------
(* Configuration: github.rs REGISTRIES.                                    *)

REGISTRIES ==
    << [name |-> "clawdhub", repo_url |-> "https://github.com/openclaw/skills.git",
        skills_path |-> <<"skills">>, trusted |-> FALSE],
       [name |-> "anthropic", repo_url |-> "https://github.com/anthropics/skills.git",
        skills_path |-> <<"skills">>, trusted |-> TRUE],
       [name |-> "openai", repo_url |-> "https://github.com/openai/skills.git",
        skills_path |-> <<"skills", ".curated">>, trusted |-> TRUE],
       [name |-> "openai-experimental", repo_url |-> "https://github.com/openai/skills.git",
        skills_path |-> <<"skills", ".experimental">>, trusted |-> FALSE] >>

RegNames == { REGISTRIES[i].name : i \in DOMAIN REGISTRIES }

\* Option<T>
None == << >>
Some(x) == << x >>

-----------------------------------------------------------------------------
(* Store: src/db.rs                                                        *)

\* struct Skill
MkSkill(slug, name, registry, description, skill_md, github_url, version, stars, trusted, updated_at) ==
    [id |-> 0, slug |-> slug, name |-> name, registry |-> registry,
     description |-> description, skill_md |-> skill_md,
     github_url |-> github_url, version |-> version, stars |-> stars,
     trusted |-> trusted, updated_at |-> updated_at]

\* mutant: the conflict target and the WHERE clauses name the slug alone
RowsByKey_SlugOnly(rows, registry, slug) ==
    { i \in DOMAIN rows : rows[i].slug = slug }

\* rows selected by WHERE registry = ? AND slug = ?
RowsByKey(rows, registry, slug) ==
    { i \in DOMAIN rows : rows[i].registry = registry /\ rows[i].slug = slug }

\* rows selected by WHERE slug = ?
RowsBySlug(rows, slug) == { i \in DOMAIN rows : rows[i].slug = slug }

\* mutant: the SET list leaves out stars
ConflictUpdate_KeepStars(row, s) ==
    [row EXCEPT !.name = s.name, !.description = s.description,
                !.skill_md = s.skill_md, !.github_url = s.github_url,
                !.version = s.version, !.trusted = s.trusted,
                !.updated_at = s.updated_at]

\* ON CONFLICT(registry, slug) DO UPDATE SET ... = excluded. ...
ConflictUpdate(row, s) ==
    [row EXCEPT !.name = s.name, !.description = s.description,
                !.skill_md = s.skill_md, !.github_url = s.github_url,
                !.version = s.version, !.stars = s.stars,
                !.trusted = s.trusted, !.updated_at = s.updated_at]

\* mutant: a plain INSERT into a table without the UNIQUE constraint
UpsertRows_AlwaysInsert(rows, s) ==
    Append(rows, [s EXCEPT !.id = Len(rows) + 1])

\* mutant: ON CONFLICT(registry, slug) DO NOTHING
UpsertRows_KeepFirst(rows, s) ==
    IF RowsByKey(rows, s.registry, s.slug) = {}
    THEN Append(rows, [s EXCEPT !.id = Len(rows) + 1])
    ELSE rows

\* the INSERT ... ON CONFLICT statement of upsert_skill on the table
UpsertRows(rows, s) ==
    IF RowsByKey(rows, s.registry, s.slug) = {}
    THEN Append(rows, [s EXCEPT !.id = Len(rows) + 1])
    ELSE [i \in DOMAIN rows |->
            IF i \in RowsByKey(rows, s.registry, s.slug)
            THEN ConflictUpdate(rows[i], s) ELSE rows[i]]

\* sqlite3_last_insert_rowid after the statement: set by a successful INSERT
\* only; the DO UPDATE branch leaves it as it was
RowidAfterUpsert(rows, s, rowid) ==
    IF RowsByKey(rows, s.registry, s.slug) = {} THEN Len(rows) + 1 ELSE rowid

\* the id upsert_skill returns (db.rs:124-134)
UpsertReturn(rows, s, rowid) ==
    IF RowidAfterUpsert(rows, s, rowid) = 0
    THEN (CHOOSE i \in RowsByKey(UpsertRows(rows, s), s.registry, s.slug) : TRUE)
    ELSE RowidAfterUpsert(rows, s, rowid)

\* mutant: UPDATE skills SET stars = ? WHERE slug = ?
UpdateStarsRows_BySlug(rows, registry, slug, stars) ==
    [i \in DOMAIN rows |->
        IF rows[i].slug = slug THEN [rows[i] EXCEPT !.stars = stars] ELSE rows[i]]

\* UPDATE skills SET stars = ? WHERE registry = ? AND slug = ?
UpdateStarsRows(rows, registry, slug, stars) ==
    [i \in DOMAIN rows |->
        IF i \in RowsByKey(rows, registry, slug)
        THEN [rows[i] EXCEPT !.stars = stars] ELSE rows[i]]

\* the stars the rows of a registry hold
StarsOf(rows, registry) ==
    { rows[i].stars : i \in { i \in DOMAIN rows : rows[i].registry = registry } }

\* the row a call on (registry, slug) finds before it runs
OldRow(rows, registry, slug) ==
    IF RowsByKey(rows, registry, slug) = {} THEN None
    ELSE Some(rows[CHOOSE i \in RowsByKey(rows, registry, slug) : TRUE])

\* mutant: the Store never asks for the initial sync
NeedsInitialSync_Never(rows) == FALSE

\* Database::needs_initial_sync: the row count of skills is 0
NeedsInitialSync(rows) == Len(rows) = 0

\* mutant: only the first registry's entry is deleted
ClearSyncStateRows_OnlyFirst(state) ==
    [r \in DOMAIN state |-> IF r = REGISTRIES[1].name THEN None ELSE state[r]]

\* Database::clear_sync_state: DELETE FROM sync_state
ClearSyncStateRows(state) ==
    [r \in DOMAIN state |-> None]

\* Database::get_last_sync
GetLastSync(state, registry) == state[registry]

\* Database::set_last_sync: INSERT OR REPLACE INTO sync_state
SetLastSync(state, registry, timestamp, etag) ==
    [state EXCEPT ![registry] = Some([last_sync |-> timestamp, etag |-> etag])]

-----------------------------------------------------------------------------
(* Ingestor: src/github.rs                                                 *)

\* The upstream repositories.  A manifest is a sequence of lines, a line a
\* sequence of words; the manifests of the model hold no quote characters.
MdCalV1 ==
    << <<"---">>, <<"name:", "Calendar">>, <<"description:", "Manage", "events">>,
       <<"version:", "1.0.0">>, <<"---">>, <<"#", "Cal">>, <<"xyzabc123">> >>

MdCalV2 ==
    << <<"---">>, <<"name:", "Calendar", "Pro">>, <<"description:", "Plan", "events">>,
       <<"trusted:", "true">>, <<"---">>, <<"body">> >>

MdCalA ==
    << <<"---">>, <<"description:", "no", "name">>, <<"---">>, <<"#", "Agenda">> >>

\* a directory entry: a file, or a directory with an optional readable
\* SKILL.md and its own entries
File(name) == [name |-> name, is_dir |-> FALSE, md |-> None, readable |-> TRUE, subs |-> << >>]
SkillDir(name, md) == [name |-> name, is_dir |-> TRUE, md |-> Some(md), readable |-> TRUE, subs |-> << >>]
BadSkillDir(name) == [name |-> name, is_dir |-> TRUE, md |-> Some(<< >>), readable |-> FALSE, subs |-> << >>]
GroupDir(name, subs) == [name |-> name, is_dir |-> TRUE, md |-> None, readable |-> TRUE, subs |-> subs]

\* the revision of registry's upstream repository at time t
Upstream(registry, t) ==
    IF registry \in {"clawdhub", "anthropic"} /\ t >= 2 THEN 2 ELSE 1

\* the tree of a revision: whether the skills path exists, and the entries
\* under it in read_dir order
Tree(registry, rev) ==
    CASE registry = "clawdhub" ->
           IF rev = 1
           THEN [has_path |-> TRUE,
                 entries |-> << GroupDir("alice", << SkillDir("cal", MdCalV1) >>) >>]
           ELSE [has_path |-> TRUE,
                 entries |-> << File("README.md"),
                                GroupDir("bob", << SkillDir("cal", MdCalV1) >>),
                                GroupDir("alice", << File("notes.txt"), SkillDir("cal", MdCalV2) >>) >>]
      [] registry = "anthropic" ->
           IF rev = 1
           THEN [has_path |-> TRUE, entries |-> << SkillDir("cal", MdCalA) >>]
           ELSE [has_path |-> TRUE, entries |-> << >>]
      [] registry = "openai" ->
           [has_path |-> TRUE, entries |-> << BadSkillDir("broken") >>]
      [] OTHER -> [has_path |-> FALSE, entries |-> << >>]

\* str::lines of the text between the opening "---" and the next "---":
\* the lines after the first up to the first later line that holds "---"
ClosingLine(md) ==
    IF \E j \in 2..Len(md) : \E k \in DOMAIN md[j] : md[j][k] = "---"
    THEN CHOOSE j \in 2..Len(md) :
            /\ \E k \in DOMAIN md[j] : md[j][k] = "---"
            /\ \A h \in 2..(j - 1) : \A k \in DOMAIN md[h] : md[h][k] # "---"
    ELSE 0

\* the value of the last frontmatter line `key value...`, or absent
FrontValue(md, key) ==
    LET close == ClosingLine(md)
        hits == { j \in 2..(close - 1) : md[j] # << >> /\ md[j][1] = key }
    IN  IF Len(md) = 0 \/ md[1] = << >> \/ md[1][1] # "---" \/ close = 0 \/ hits = {}
        THEN None
        ELSE LET j == CHOOSE h \in hits : \A g \in hits : g <= h
             IN  Some(Tail(md[j]))

\* the first line beginning with "# "
HeadingName(md) ==
    LET hits == { j \in DOMAIN md : Len(md[j]) >= 2 /\ md[j][1] = "#" }
    IN  IF hits = {} THEN << >>
        ELSE Tail(md[CHOOSE h \in hits : \A g \in hits : h <= g])

OrEmpty(opt) == IF opt = None THEN << >> ELSE opt[1]

\* parse_skill_frontmatter: (name, description, version)
ParseSkillFrontmatter(md) ==
    LET name == OrEmpty(FrontValue(md, "name:"))
    IN  [name |-> IF name = << >> THEN HeadingName(md) ELSE name,
         description |-> OrEmpty(FrontValue(md, "description:")),
         version |-> FrontValue(md, "version:")]

\* the URL template of process_skill
UrlBase(registry) ==
    CASE registry = "clawdhub" -> "https://github.com/openclaw/skills/tree/main/"
      [] registry = "anthropic" -> "https://github.com/anthropics/skills/tree/main/"
      [] registry \in {"openai", "openai-experimental"} -> "https://github.com/openai/skills/tree/main/"
      [] OTHER -> "https://github.com/unknown/"

\* mutant: a manifest may declare its skill trusted
ProcessedSkill_TrustFromManifest(registry, rel_path, md, t) ==
    LET fm == ParseSkillFrontmatter(md)
    IN  MkSkill(rel_path[Len(rel_path)], fm.name, registry.name, fm.description, md,
                <<UrlBase(registry.name), rel_path>>, fm.version, 0,
                registry.trusted \/ FrontValue(md, "trusted:") = Some(<<"true">>), t)

\* mutant: every scanned skill is filed under the first registry
ProcessedSkill_FixedRegistry(registry, rel_path, md, t) ==
    LET fm == ParseSkillFrontmatter(md)
    IN  MkSkill(rel_path[Len(rel_path)], fm.name, REGISTRIES[1].name, fm.description, md,
                <<UrlBase(registry.name), rel_path>>, fm.version, 0, registry.trusted, t)

\* the Skill process_skill builds for the directory at rel_path
ProcessedSkill(registry, rel_path, md, t) ==
    LET fm == ParseSkillFrontmatter(md)
    IN  MkSkill(rel_path[Len(rel_path)], fm.name, registry.name, fm.description, md,
                <<UrlBase(registry.name), rel_path>>, fm.version, 0, registry.trusted, t)

\* mutant: process_skill stores the stars the row already has
ProcessSkill_KeepStars(db, registry, rel_path, dir, t) ==
    IF ~dir.readable THEN db
    ELSE LET s == ProcessedSkill(registry, rel_path, dir.md[1], t)
             had == RowsByKey(db.rows, s.registry, s.slug)
             kept == IF had = {} THEN s
                     ELSE [s EXCEPT !.stars = db.rows[CHOOSE i \in had : TRUE].stars]
         IN  [rows |-> UpsertRows(db.rows, kept),
              rowid |-> RowidAfterUpsert(db.rows, kept, db.rowid)]

\* process_skill on the table: a manifest that cannot be read is an error,
\* which scan_skills_dir logs and skips
ProcessSkill(db, registry, rel_path, dir, t) ==
    IF ~dir.readable THEN db
    ELSE [rows |-> UpsertRows(db.rows, ProcessedSkill(registry, rel_path, dir.md[1], t)),
          rowid |-> RowidAfterUpsert(db.rows, ProcessedSkill(registry, rel_path, dir.md[1], t), db.rowid)]

\* the inner loop of scan_skills_dir over the sub-directories of a group
RECURSIVE ScanSubs(_, _, _, _, _, _)
ScanSubs(db, registry, path, subs, k, t) ==
    IF k > Len(subs) THEN db
    ELSE ScanSubs(IF subs[k].is_dir /\ subs[k].md # None
                  THEN ProcessSkill(db, registry, Append(path, subs[k].name), subs[k], t)
                  ELSE db,
                  registry, path, subs, k + 1, t)

\* mutant: `process_skill(...)?` for a flat skill directory, so that a
\* directory that cannot be processed ends the scan
RECURSIVE ScanSkillsDir_StopOnError(_, _, _, _, _, _)
ScanSkillsDir_StopOnError(db, registry, entries, k, fail_at, t) ==
    IF k > Len(entries) \/ k = fail_at THEN db
    ELSE LET e == entries[k]
             path == Append(registry.skills_path, e.name)
             next == IF ~e.is_dir THEN db
                     ELSE IF e.md # None THEN ProcessSkill(db, registry, path, e, t)
                     ELSE ScanSubs(db, registry, path, e.subs, 1, t)
         IN  IF e.is_dir /\ e.md # None /\ ~e.readable THEN db
             ELSE ScanSkillsDir_StopOnError(next, registry, entries, k + 1, fail_at, t)

\* scan_skills_dir over entries k.. ; the read of entry `fail_at` fails
\* (0: none does), which ends the scan with an error
RECURSIVE ScanSkillsDir(_, _, _, _, _, _)
ScanSkillsDir(db, registry, entries, k, fail_at, t) ==
    IF k > Len(entries) \/ k = fail_at THEN db
    ELSE LET e == entries[k]
             path == Append(registry.skills_path, e.name)
             next == IF ~e.is_dir THEN db
                     ELSE IF e.md # None THEN ProcessSkill(db, registry, path, e, t)
                     ELSE ScanSubs(db, registry, path, e.subs, 1, t)
         IN  ScanSkillsDir(next, registry, entries, k + 1, fail_at, t)

\* mutant: a failed pull ends the sync, the mirror staying as it is
Acquire_NoReclone(mirror, git, upstream) ==
    IF mirror # 0 /\ git \in {"pull_fail", "fail"}
    THEN [mirror |-> mirror, ok |-> FALSE, steps |-> << <<"pull", "failed">> >>]
    ELSE IF git \in {"ok", "pull_fail"}
    THEN [mirror |-> upstream, ok |-> TRUE,
          steps |-> << <<IF mirror = 0 THEN "clone" ELSE "pull", "ok">> >>]
    ELSE [mirror |-> mirror, ok |-> FALSE,
          steps |-> << <<IF mirror = 0 THEN "clone" ELSE "pull",
                         IF git = "fail" THEN "failed" ELSE "error">> >>]

\* the clone-or-pull step of sync_registry: the mirror it leaves and whether
\* it succeeded.  git is what the git commands do:
\*   "ok"         the pull (or, with no mirror, the clone) succeeds
\*   "pull_fail"  the pull fails, the mirror is removed, the clone succeeds
\*   "fail"       the pull fails and the fresh clone fails too, or, with no
\*                mirror, the clone fails
\*   "spawn_err"  git cannot be run: Command::status()? returns the error
\* steps: the commands run, each with "ok", "failed" (non-zero exit status)
\* or "error" (the command could not be run)
Acquire(mirror, git, upstream) ==
    LET clone == IF git = "spawn_err"
                 THEN [mirror |-> 0, ok |-> FALSE, steps |-> << <<"clone", "error">> >>]
                 ELSE IF git = "fail"
                 THEN [mirror |-> 0, ok |-> FALSE, steps |-> << <<"clone", "failed">> >>]
                 ELSE [mirror |-> upstream, ok |-> TRUE, steps |-> << <<"clone", "ok">> >>]
    IN  IF mirror = 0 THEN clone
        ELSE IF git = "spawn_err"
        THEN [mirror |-> mirror, ok |-> FALSE, steps |-> << <<"pull", "error">> >>]
        ELSE IF git = "ok"
        THEN [mirror |-> upstream, ok |-> TRUE, steps |-> << <<"pull", "ok">> >>]
        ELSE [clone EXCEPT !.steps = << <<"pull", "failed">>, <<"remove_dir_all", "ok">> >> \o @]

\* mutant: an incremental sync, which leaves alone a registry that has a
\* sync state entry
SyncRegistryResult_SkipSynced(registry, git, fail_at, t) ==
    LET acq == Acquire(mirrors[registry.name], git, Upstream(registry.name, t))
        tree == Tree(registry.name, acq.mirror)
        db0 == [rows |-> skills, rowid |-> last_insert_rowid]
        scanned == acq.ok /\ tree.has_path
        db1 == IF scanned THEN ScanSkillsDir(db0, registry, tree.entries, 1, fail_at, t)
               ELSE db0
        ok == scanned /\ fail_at = 0
    IN  IF GetLastSync(sync_state, registry.name) # None
        THEN [mirror |-> mirrors[registry.name], rows |-> skills,
              rowid |-> last_insert_rowid, ok |-> TRUE, scanned |-> FALSE,
              git |-> << >>, state |-> sync_state]
        ELSE [mirror |-> acq.mirror, rows |-> db1.rows, rowid |-> db1.rowid, ok |-> ok,
              scanned |-> scanned, git |-> acq.steps,
              state |-> IF ok THEN SetLastSync(sync_state, registry.name, t, None)
                        ELSE sync_state]

\* mutant: the sync state entry is written as soon as the scan has started
SyncRegistryResult_StampEarly(registry, git, fail_at, t) ==
    LET acq == Acquire(mirrors[registry.name], git, Upstream(registry.name, t))
        tree == Tree(registry.name, acq.mirror)
        db0 == [rows |-> skills, rowid |-> last_insert_rowid]
        scanned == acq.ok /\ tree.has_path
        db1 == IF scanned THEN ScanSkillsDir(db0, registry, tree.entries, 1, fail_at, t)
               ELSE db0
        ok == scanned /\ fail_at = 0
    IN  [mirror |-> acq.mirror, rows |-> db1.rows, rowid |-> db1.rowid, ok |-> ok,
         scanned |-> scanned, git |-> acq.steps,
         state |-> IF scanned THEN SetLastSync(sync_state, registry.name, t, None)
                   ELSE sync_state]

\* mutant: a scan first drops the registry's rows, so that only the skills
\* now upstream remain
SyncRegistryResult_Reconcile(registry, git, fail_at, t) ==
    LET acq == Acquire(mirrors[registry.name], git, Upstream(registry.name, t))
        tree == Tree(registry.name, acq.mirror)
        scanned == acq.ok /\ tree.has_path
        db0 == [rows |-> IF scanned
                         THEN SelectSeq(skills, LAMBDA s : s.registry # registry.name)
                         ELSE skills,
                rowid |-> last_insert_rowid]
        db1 == IF scanned THEN ScanSkillsDir(db0, registry, tree.entries, 1, fail_at, t)
               ELSE db0
        ok == scanned /\ fail_at = 0
    IN  [mirror |-> acq.mirror, rows |-> db1.rows, rowid |-> db1.rowid, ok |-> ok,
         scanned |-> scanned, git |-> acq.steps,
         state |-> IF ok THEN SetLastSync(sync_state, registry.name, t, None)
                   ELSE sync_state]

\* sync_registry: the effect on (mirror, rows, rowid, sync state, result).
\* fail_at = Len(entries) + 1 is a failure of the counting loop after a
\* complete scan.
SyncRegistryResult(registry, git, fail_at, t) ==
    LET acq == Acquire(mirrors[registry.name], git, Upstream(registry.name, t))
        tree == Tree(registry.name, acq.mirror)
        db0 == [rows |-> skills, rowid |-> last_insert_rowid]
        scanned == acq.ok /\ tree.has_path
        db1 == IF scanned THEN ScanSkillsDir(db0, registry, tree.entries, 1, fail_at, t)
               ELSE db0
        ok == scanned /\ fail_at = 0
    IN  [mirror |-> acq.mirror, rows |-> db1.rows, rowid |-> db1.rowid, ok |-> ok,
         scanned |-> scanned, git |-> acq.steps,
         state |-> IF ok THEN SetLastSync(sync_state, registry.name, t, None)
                   ELSE sync_state]

\* the clawdhub API: the response to a request with the given cursor under
\* scenario scn.  A response is an error (send failure, non-success status
\* or undecodable body) or a page of items and a nextCursor.
Page(items, next) == [ok |-> TRUE, items |-> items, next |-> next]
ApiError == [ok |-> FALSE, items |-> << >>, next |-> None]

ApiScenarios == 1..5

\* the cursors of the long listing of scenario 5, one per page after the
\* first: more pages than the ten between two progress messages.  The
\* listing holds no skill of the trees.
Cursors == <<"c1", "c2", "c3", "c4", "c5", "c6", "c7", "c8", "c9", "c10", "c11">>

Api(scn, cursor) ==
    CASE scn = 1 -> Page(<< <<"cal", 5>> >>, None)
      [] scn = 2 /\ cursor = None -> Page(<< <<"cal", 4>>, <<"ghost", 9>> >>, Some("c1"))
      [] scn = 2 /\ cursor = Some("c1") -> Page(<< <<"cal", 5>> >>, Some(""))
      [] scn = 3 /\ cursor = None -> Page(<< <<"cal", 7>> >>, Some("c1"))
      [] scn = 5 /\ cursor = None -> Page(<< <<"ghost", 4>> >>, Some(Cursors[1]))
      [] scn = 5 /\ cursor \in { Some(Cursors[k]) : k \in DOMAIN Cursors } ->
           LET k == CHOOSE j \in DOMAIN Cursors : cursor = Some(Cursors[j])
           IN  IF k < Len(Cursors) THEN Page(<< <<"other", 9>> >>, Some(Cursors[k + 1]))
               ELSE Page(<< <<"ghost", 5>> >>, None)
      [] OTHER -> ApiError

\* stars_map.insert for the items of one page
RECURSIVE InsertItems(_, _, _)
InsertItems(map, items, k) ==
    IF k > Len(items) THEN map
    ELSE InsertItems([x \in DOMAIN map \cup {items[k][1]} |->
                         IF x = items[k][1] THEN items[k][2] ELSE map[x]],
                     items, k + 1)

\* mutant: the loop ends with the tenth page
RECURSIVE FetchPages_TenPages(_, _, _, _)
FetchPages_TenPages(scn, cursor, map, asked) ==
    LET resp == Api(scn, cursor)
        sent == Append(asked, cursor)
    IN  IF ~resp.ok THEN [ok |-> FALSE, map |-> map, pages |-> Len(asked), asked |-> sent]
        ELSE IF resp.next # None /\ resp.next[1] # "" /\ Len(sent) % 10 # 0
        THEN FetchPages_TenPages(scn, resp.next, InsertItems(map, resp.items, 1), sent)
        ELSE [ok |-> TRUE, map |-> InsertItems(map, resp.items, 1),
              pages |-> Len(sent), asked |-> sent]

\* the loop of fetch_clawdhub_stars from a request with `cursor`, after the
\* requests `asked` (the cursor of each, in order): the map, the number of
\* pages received and the requests sent, or the error of the first failing
\* request
RECURSIVE FetchPages(_, _, _, _)
FetchPages(scn, cursor, map, asked) ==
    LET resp == Api(scn, cursor)
        sent == Append(asked, cursor)
    IN  IF ~resp.ok THEN [ok |-> FALSE, map |-> map, pages |-> Len(asked), asked |-> sent]
        ELSE IF resp.next # None /\ resp.next[1] # ""
        THEN FetchPages(scn, resp.next, InsertItems(map, resp.items, 1), sent)
        ELSE [ok |-> TRUE, map |-> InsertItems(map, resp.items, 1),
              pages |-> Len(sent), asked |-> sent]

\* mutant: a fetched slug that has no clawdhub row is given one
RECURSIVE ApplyStars_CreateMissing(_, _, _)
ApplyStars_CreateMissing(rows, map, todo) ==
    IF todo = {} THEN rows
    ELSE LET slug == CHOOSE x \in todo : TRUE
             found == IF RowsByKey(rows, "clawdhub", slug) # {} THEN rows
                      ELSE UpsertRows(rows, MkSkill(slug, << >>, "clawdhub", << >>, << >>,
                                                    <<UrlBase("clawdhub"), <<slug>>>>,
                                                    None, 0, FALSE, 0))
         IN  ApplyStars_CreateMissing(UpdateStarsRows(found, "clawdhub", slug, map[slug]),
                                      map, todo \ {slug})

\* for (slug, stars) in stars_map: db.update_stars("clawdhub", slug, stars)
RECURSIVE ApplyStars(_, _, _)
ApplyStars(rows, map, todo) ==
    IF todo = {} THEN rows
    ELSE LET slug == CHOOSE x \in todo : TRUE
         IN  ApplyStars(UpdateStarsRows(rows, "clawdhub", slug, map[slug]), map,
                        todo \ {slug})

\* mutant: the stars of the pages received are applied although a later
\* request failed
StarsRefreshed_Partial(rows, got) ==
    ApplyStars(rows, got.map, DOMAIN got.map)

\* the table after fetch_clawdhub_stars whose loop ended as `got`: the map
\* is applied only when every request succeeded
StarsRefreshed(rows, got) ==
    IF got.ok THEN ApplyStars(rows, got.map, DOMAIN got.map) ELSE rows

-----------------------------------------------------------------------------
(* parse_skill_frontmatter on the characters of a manifest                 *)
(* (src/github.rs).  Here a string is a sequence of characters.            *)

NL == "\n"
DQ == "\""
SQ == "'"

\* char::is_whitespace on the characters of the model
Whitespace == {" ", NL}

\* str::starts_with
StartsWith(str, p) ==
    Len(str) >= Len(p) /\ SubSeq(str, 1, Len(p)) = p

\* str::strip_prefix
StripPrefix(str, p) ==
    IF StartsWith(str, p) THEN Some(SubSeq(str, Len(p) + 1, Len(str))) ELSE None

\* str::find: the offset of the first occurrence of p
Find(str, p) ==
    LET at == { i \in 0..(Len(str) - Len(p)) : SubSeq(str, i + 1, i + Len(p)) = p }
    IN  IF at = {} THEN None ELSE Some(CHOOSE i \in at : \A j \in at : i <= j)

\* str::lines: the pieces between line feeds; a final line feed opens no
\* further line
RECURSIVE Lines(_)
Lines(str) ==
    IF str = << >> THEN << >>
    ELSE LET nl == Find(str, <<NL>>)
         IN  IF nl = None THEN <<str>>
             ELSE <<SubSeq(str, 1, nl[1])>> \o Lines(SubSeq(str, nl[1] + 2, Len(str)))

\* str::trim_start_matches / trim_end_matches for a set of characters:
\* every leading (trailing) character of the set is removed
RECURSIVE TrimStart(_, _)
TrimStart(str, cs) ==
    IF str # << >> /\ Head(str) \in cs THEN TrimStart(Tail(str), cs) ELSE str

RECURSIVE TrimEnd(_, _)
TrimEnd(str, cs) ==
    IF str # << >> /\ str[Len(str)] \in cs THEN TrimEnd(SubSeq(str, 1, Len(str) - 1), cs)
    ELSE str

\* str::trim
Trim(str) == TrimEnd(TrimStart(str, Whitespace), Whitespace)

\* str::trim_matches(c)
TrimMatches(str, c) == TrimEnd(TrimStart(str, {c}), {c})

\* val.trim().trim_matches('"').trim_matches('\'')
FrontmatterValue(val) == TrimMatches(TrimMatches(Trim(val), DQ), SQ)

KeyName == <<"n", "a", "m", "e", ":">>
KeyDescription == <<"d", "e", "s", "c", "r", "i", "p", "t", "i", "o", "n", ":">>
KeyVersion == <<"v", "e", "r", "s", "i", "o", "n", ":">>
Dashes == <<"-", "-", "-">>

\* the loop over frontmatter.lines() from line k
RECURSIVE FrontmatterLines(_, _, _)
FrontmatterLines(lines, k, acc) ==
    IF k > Len(lines) THEN acc
    ELSE LET line == Trim(lines[k])
             next == IF StartsWith(line, KeyName)
                     THEN [acc EXCEPT !.name = FrontmatterValue(StripPrefix(line, KeyName)[1])]
                     ELSE IF StartsWith(line, KeyDescription)
                     THEN [acc EXCEPT !.description =
                               FrontmatterValue(StripPrefix(line, KeyDescription)[1])]
                     ELSE IF StartsWith(line, KeyVersion)
                     THEN [acc EXCEPT !.version =
                               Some(FrontmatterValue(StripPrefix(line, KeyVersion)[1]))]
                     ELSE acc
         IN  FrontmatterLines(lines, k + 1, next)

\* the first line of content.lines() with the prefix "# ", trimmed
FirstHeading(content) ==
    LET lines == Lines(content)
        hits == { k \in DOMAIN lines : StartsWith(lines[k], <<"#", " ">>) }
    IN  IF hits = {} THEN << >>
        ELSE Trim(StripPrefix(lines[CHOOSE k \in hits : \A j \in hits : k <= j],
                              <<"#", " ">>)[1])

\* mutant: the fallback to the heading also empties the description
ParseFrontmatterText_FallbackClears(content) ==
    LET empty == [name |-> << >>, description |-> << >>, version |-> None]
        rest == SubSeq(content, 4, Len(content))
        block == IF StartsWith(content, Dashes) /\ Find(rest, Dashes) # None
                 THEN FrontmatterLines(Lines(SubSeq(rest, 1, Find(rest, Dashes)[1])), 1, empty)
                 ELSE empty
    IN  IF block.name = << >>
        THEN [block EXCEPT !.name = FirstHeading(content), !.description = << >>]
        ELSE block

\* parse_skill_frontmatter: (name, description, version)
ParseFrontmatterText(content) ==
    LET empty == [name |-> << >>, description |-> << >>, version |-> None]
        rest == SubSeq(content, 4, Len(content))
        block == IF StartsWith(content, Dashes) /\ Find(rest, Dashes) # None
                 THEN FrontmatterLines(Lines(SubSeq(rest, 1, Find(rest, Dashes)[1])), 1, empty)
                 ELSE empty
    IN  IF block.name = << >> THEN [block EXCEPT !.name = FirstHeading(content)]
        ELSE block

\* a key line of a manifest
KeyText(key) ==
    CASE key = "name" -> KeyName
      [] key = "description" -> KeyDescription
      [] key = "version" -> KeyVersion

KeyLine(key, val) == KeyText(key) \o <<" ">> \o val \o <<NL>>

\* the value the other two keys are given
OtherValue == <<"b">>

\* the characters of the manifest with these pieces
Manifest(parts) ==
    (IF parts.open THEN Dashes \o <<NL>> ELSE << >>)
    \o (IF parts.key = "name" THEN KeyLine("name", parts.val)
        ELSE IF parts.others THEN KeyLine("name", OtherValue) ELSE << >>)
    \o (IF parts.key = "description" THEN KeyLine("description", parts.val)
        ELSE IF parts.others THEN KeyLine("description", OtherValue) ELSE << >>)
    \o (IF parts.key = "version" THEN KeyLine("version", parts.val)
        ELSE IF parts.others THEN KeyLine("version", OtherValue) ELSE << >>)
    \o (IF parts.closed THEN Dashes \o <<NL>> ELSE << >>)
    \o (IF parts.pre THEN <<"t", NL>> ELSE << >>)
    \o (IF parts.heading # None THEN <<"#", " ">> \o parts.heading[1] \o <<NL>> ELSE << >>)

-----------------------------------------------------------------------------
(* Indexer: src/index.rs                                                   *)

\* the default tokenizer on one word: split at non-alphanumeric characters,
\* lowercase
WordTokens(w) ==
    CASE w \in {"---", "#"} -> << >>
      [] w = "name:" -> <<"name">>
      [] w = "description:" -> <<"description">>
      [] w = "version:" -> <<"version">>
      [] w = "trusted:" -> <<"trusted">>
      [] w = "1.0.0" -> <<"1", "0", "0">>
      [] w = "Calendar" -> <<"calendar">>
      [] w = "Manager" -> <<"manager">>
      [] w = "Manage" -> <<"manage">>
      [] w = "Plan" -> <<"plan">>
      [] w = "Pro" -> <<"pro">>
      [] w = "Cal" -> <<"cal">>
      [] w = "Agenda" -> <<"agenda">>
      [] w = "PDF" -> <<"pdf">>
      [] w = "Reader" -> <<"reader">>
      [] w = "Read" -> <<"read">>
      [] w = "Test" -> <<"test">>
      [] w = "XYZABC123" -> <<"xyzabc123">>
      [] OTHER -> <<w>>

RECURSIVE Tokenize(_)
Tokenize(text) ==
    IF text = << >> THEN << >> ELSE WordTokens(Head(text)) \o Tokenize(Tail(text))

\* the lines of a manifest as one text
RECURSIVE Flatten(_)
Flatten(md) == IF md = << >> THEN << >> ELSE Head(md) \o Flatten(Tail(md))

\* the set of tokens of a text
Terms(text) ==
    LET toks == Tokenize(text) IN { toks[i] : i \in DOMAIN toks }

\* the number of occurrences of a term in a text
Tf(text, term) ==
    LET toks == Tokenize(text) IN Cardinality({ i \in DOMAIN toks : toks[i] = term })

\* mutant: the content field is built without skill_md
Doc_NoManifest(skill) ==
    [slug |-> skill.slug, name |-> skill.name, description |-> skill.description,
     registry |-> skill.registry,
     content |-> skill.name \o skill.description]

\* the document rebuild adds for a row
Doc(skill) ==
    [slug |-> skill.slug, name |-> skill.name, description |-> skill.description,
     registry |-> skill.registry,
     content |-> skill.name \o skill.description \o Flatten(skill.skill_md)]

\* the parsed text query matches a document when one of its terms occurs in
\* name, description or content
Matches(doc, query) ==
    Terms(query) \cap (Terms(doc.name) \cup Terms(doc.description) \cup Terms(doc.content)) # {}

RECURSIVE SumTf(_, _)
SumTf(doc, terms) ==
    IF terms = {} THEN 0
    ELSE LET term == CHOOSE x \in terms : TRUE
         IN  Tf(doc.name, term) + Tf(doc.description, term) + Tf(doc.content, term)
             + SumTf(doc, terms \ {term})

\* relevance of a matching document: grows with the occurrences of the
\* query's terms in the searched fields
Score(doc, query) == SumTf(doc, Terms(query))

\* mutant: final_query is the text query whether or not a filter is given
Hits_NoFilter(index, query, registry) ==
    { i \in DOMAIN index : Matches(index[i], query) }

\* final_query: the text query, and with a filter the exact registry term
Hits(index, query, registry) ==
    { i \in DOMAIN index :
        /\ Matches(index[i], query)
        /\ registry # None => index[i].registry = registry[1] }

\* mutant: the collector keeps every hit
RECURSIVE TopDocs_Unbounded(_, _, _)
TopDocs_Unbounded(score, hits, limit) ==
    IF hits = {} THEN << >>
    ELSE LET best == CHOOSE i \in hits : \A j \in hits :
                        \/ score[i] > score[j]
                        \/ score[i] = score[j] /\ i <= j
         IN  <<best>> \o TopDocs_Unbounded(score, hits \ {best}, limit)

\* TopDocs::with_limit: best score first, ties by document address
RECURSIVE TopDocs(_, _, _)
TopDocs(score, hits, limit) ==
    IF hits = {} \/ limit = 0 THEN << >>
    ELSE LET best == CHOOSE i \in hits : \A j \in hits :
                        \/ score[i] > score[j]
                        \/ score[i] = score[j] /\ i <= j
         IN  <<best>> \o TopDocs(score, hits \ {best}, limit - 1)

\* SearchIndex::search: the SearchResult sequence
SearchResults(index, query, limit, registry) ==
    LET hits == Hits(index, query, registry)
        score == [i \in hits |-> Score(index[i], query)]
        top == TopDocs(score, hits, limit)
    IN  [k \in DOMAIN top |->
            [slug |-> index[top[k]].slug, name |-> index[top[k]].name,
             description |-> index[top[k]].description,
             registry |-> index[top[k]].registry,
             score |-> score[top[k]]]]

-----------------------------------------------------------------------------
(* Quality Overlay: src/quality.rs.  Here a string is a sequence of        *)
(* characters.                                                             *)

\* the upper-case letters of the model and their lower-case forms
UpperToLower ==
    [c \in {"A", "C", "D", "E", "F", "I", "K", "L", "M", "N", "P", "R", "S"} |->
        CASE c = "A" -> "a" [] c = "C" -> "c" [] c = "D" -> "d" [] c = "E" -> "e"
          [] c = "F" -> "f" [] c = "I" -> "i" [] c = "K" -> "k" [] c = "L" -> "l"
          [] c = "M" -> "m" [] c = "N" -> "n" [] c = "P" -> "p" [] c = "R" -> "r"
          [] c = "S" -> "s"]

\* char::is_alphanumeric on the characters of the model
Alphanumeric ==
    DOMAIN UpperToLower \cup
    {"a", "c", "d", "e", "f", "g", "i", "k", "l", "m", "n", "p", "r", "s", "y", "1"}

\* str::to_lowercase
ToLowercase(str) ==
    [i \in DOMAIN str |-> IF str[i] \in DOMAIN UpperToLower THEN UpperToLower[str[i]] ELSE str[i]]

\* the filter of normalize_slug
KeptChar(c) == c \in Alphanumeric \/ c = "-" \/ c = "_"

\* mutant: the key keeps its letter case
NormalizeSlug_KeepCase(str) ==
    SelectSeq(str, KeptChar)

\* normalize_slug
NormalizeSlug(str) ==
    SelectSeq(ToLowercase(str), KeptChar)

\* extract_slug_from_url: the last non-empty piece of url.rsplit('/'), or ""
RECURSIVE ExtractSlugFromUrl(_)
ExtractSlugFromUrl(url) ==
    IF url = << >> THEN << >>
    ELSE IF url[Len(url)] = "/" THEN ExtractSlugFromUrl(SubSeq(url, 1, Len(url) - 1))
    ELSE LET slashes == { i \in DOMAIN url : url[i] = "/" }
             from == IF slashes = {} THEN 0 ELSE CHOOSE i \in slashes : \A j \in slashes : j <= i
         IN  SubSeq(url, from + 1, Len(url))

\* format!("{}:{}", registry, normalize_slug(..))
QualityKey(registry, str) == <<registry, NormalizeSlug(str)>>

\* struct QualityEntry (stars and rationale are not read)
QualityEntry(name, registry, score, url) ==
    [name |-> name, registry |-> registry, score |-> score, url |-> url]

\* the embedded dataset skills.json, in file order
QualityEntries ==
    << QualityEntry(<<"C", "a", "l">>, "clawdhub", 60,
                    <<"h", ":", "/", "/", "g", "/", "c", "a", "l">>),
       QualityEntry(<<"C", "a", "l", "e", "n", "d", "a", "r">>, "clawdhub", 90,
                    <<"h", ":", "/", "/", "g", "/", "c", "a", "l", "-", "p", "r", "o", "/">>),
       QualityEntry(<<"M", "y", "-", "S", "k", "i", "l", "l">>, "anthropic", 85,
                    <<"h", ":", "/", "/", "g", "/", "m", "y", "-", "s", "k", "i", "l", "l">>) >>

\* mutant: an entry is inserted under the key of its name only
RECURSIVE Load_NameKeyOnly(_)
Load_NameKeyOnly(entries) ==
    IF entries = << >> THEN << >>
    ELSE LET entry == entries[Len(entries)]
         IN  Load_NameKeyOnly(SubSeq(entries, 1, Len(entries) - 1))
             \o <<[key |-> QualityKey(entry.registry, entry.name), entry |-> entry]>>

\* QualityScores::load: the HashMap as the sequence of its inserts; a later
\* insert of a key replaces the earlier one
RECURSIVE Load(_)
Load(entries) ==
    IF entries = << >> THEN << >>
    ELSE LET entry == entries[Len(entries)]
             key == QualityKey(entry.registry, entry.name)
             alt_key == QualityKey(entry.registry, ExtractSlugFromUrl(entry.url))
         IN  Load(SubSeq(entries, 1, Len(entries) - 1))
             \o <<[key |-> key, entry |-> entry]>>
             \o (IF alt_key # key THEN <<[key |-> alt_key, entry |-> entry]>> ELSE << >>)

\* the table of the running process: QualityScores::load()
Scores == Load(QualityEntries)

\* HashMap::get on the inserts
MapGet(scores, key) ==
    LET hits == { i \in DOMAIN scores : scores[i].key = key }
    IN  IF hits = {} THEN None
        ELSE Some(scores[CHOOSE i \in hits : \A j \in hits : j <= i].entry)

\* QualityScores::get_score
GetScore(scores, registry, slug) ==
    LET e == MapGet(scores, QualityKey(registry, slug))
    IN  IF e = None THEN None ELSE Some(e[1].score)

\* mutant: a skill no entry matches gets the full score
QualityScore_DefaultFull(scores, registry, slug, name) ==
    IF GetScore(scores, registry, slug) # None THEN GetScore(scores, registry, slug)[1]
    ELSE IF GetScore(scores, registry, name) # None THEN GetScore(scores, registry, name)[1]
    ELSE 100

\* mutant: the callers try the name before the slug
QualityScore_NameFirst(scores, registry, slug, name) ==
    IF GetScore(scores, registry, name) # None THEN GetScore(scores, registry, name)[1]
    ELSE IF GetScore(scores, registry, slug) # None THEN GetScore(scores, registry, slug)[1]
    ELSE 0

\* the quality score the commands attach to a skill:
\* get_score(registry, slug).or_else(|| get_score(registry, name)).unwrap_or(0)
QualityScore(scores, registry, slug, name) ==
    IF GetScore(scores, registry, slug) # None THEN GetScore(scores, registry, slug)[1]
    ELSE IF GetScore(scores, registry, name) # None THEN GetScore(scores, registry, name)[1]
    ELSE 0

-----------------------------------------------------------------------------
(* Retriever and commands: src/bin/safe-skill-search.rs                    *)

\* the characters of a word of the Store's texts
Spell(word) ==
    CASE word = "cal" -> <<"c", "a", "l">>
      [] word = "pdf" -> <<"p", "d", "f">>
      [] word = "Calendar" -> <<"C", "a", "l", "e", "n", "d", "a", "r">>
      [] word = "Agenda" -> <<"A", "g", "e", "n", "d", "a">>
      [] word = "Pro" -> <<"P", "r", "o">>
      [] word = "Manager" -> <<"M", "a", "n", "a", "g", "e", "r">>
      [] word = "PDF" -> <<"P", "D", "F">>
      [] word = "Reader" -> <<"R", "e", "a", "d", "e", "r">>

\* the characters of a text: its words with one space between them
RECURSIVE SpellText(_)
SpellText(text) ==
    IF text = << >> THEN << >>
    ELSE IF Len(text) = 1 THEN Spell(text[1])
    ELSE Spell(text[1]) \o <<" ">> \o SpellText(Tail(text))

\* the quality score of a stored skill
SkillQuality(scores, skill) ==
    QualityScore(scores, skill.registry, Spell(skill.slug), SpellText(skill.name))

\* the JSON object the search command builds for a candidate and its row
Enriched(scores, r, skill) ==
    [slug |-> skill.slug, name |-> skill.name, registry |-> skill.registry,
     description |-> skill.description, github_url |-> skill.github_url,
     stars |-> skill.stars, trusted |-> skill.trusted, search_score |-> r.score,
     quality_score |-> SkillQuality(scores, skill)]

\* mutant: a candidate without a row is printed from the index's fields
RECURSIVE EnrichFrom_KeepMissing(_, _, _, _, _)
EnrichFrom_KeepMissing(scores, rows, results, k, lookup_err) ==
    IF k > Len(results) THEN << >>
    ELSE LET found == RowsByKey(rows, results[k].registry, results[k].slug)
             here == IF k \in lookup_err THEN << >>
                     ELSE IF found = {}
                     THEN <<[slug |-> results[k].slug, name |-> results[k].name,
                             registry |-> results[k].registry,
                             description |-> results[k].description,
                             github_url |-> << >>, stars |-> 0, trusted |-> FALSE,
                             search_score |-> results[k].score, quality_score |-> 0]>>
                     ELSE <<Enriched(scores, results[k], rows[CHOOSE i \in found : TRUE])>>
         IN  here \o EnrichFrom_KeepMissing(scores, rows, results, k + 1, lookup_err)

\* filter_map over the candidates from position k: db.get_skill(..).ok()
\* .flatten() drops a candidate whose lookup fails (k \in lookup_err) or
\* finds no row
RECURSIVE EnrichFrom(_, _, _, _, _)
EnrichFrom(scores, rows, results, k, lookup_err) ==
    IF k > Len(results) THEN << >>
    ELSE LET found == RowsByKey(rows, results[k].registry, results[k].slug)
             here == IF k \in lookup_err \/ found = {} THEN << >>
                     ELSE <<Enriched(scores, results[k], rows[CHOOSE i \in found : TRUE])>>
         IN  here \o EnrichFrom(scores, rows, results, k + 1, lookup_err)

\* Iterator::take
Take(seq, n) ==
    SubSeq(seq, 1, IF Len(seq) < n THEN Len(seq) ELSE n)

\* mutant: the candidates are cut to the limit before the filters
Retrieve_TakeFirst(scores, index, rows, c, lookup_err) ==
    LET results == SearchResults(index, c.query, c.limit * 4, c.registry)
        enriched == Take(EnrichFrom(scores, rows, results, 1, lookup_err), c.limit)
        trusted == SelectSeq(enriched, LAMBDA r : ~c.trusted \/ r.trusted)
    IN  SelectSeq(trusted, LAMBDA r : r.quality_score >= c.min_score)

\* the Search command after search_index.search: enrich, filter by trust,
\* filter by quality, take(limit)
Retrieve(scores, index, rows, c, lookup_err) ==
    LET results == SearchResults(index, c.query, c.limit * 4, c.registry)
        enriched == EnrichFrom(scores, rows, results, 1, lookup_err)
        trusted == SelectSeq(enriched, LAMBDA r : ~c.trusted \/ r.trusted)
        scored == SelectSeq(trusted, LAMBDA r : r.quality_score >= c.min_score)
    IN  Take(scored, c.limit)

\* what the Show command prints for a skill
Shown(scores, skill) ==
    [name |-> skill.name, registry |-> skill.registry, trusted |-> skill.trusted,
     stars |-> skill.stars, quality_score |-> SkillQuality(scores, skill),
     description |-> skill.description, github_url |-> skill.github_url,
     skill_md |-> skill.skill_md]

\* slice::sort_by(|a, b| b.stars.cmp(&a.stars)): stable, most stars first
RECURSIVE SortByStars(_)
SortByStars(seq) ==
    IF seq = << >> THEN << >>
    ELSE LET k == CHOOSE i \in DOMAIN seq : \A j \in DOMAIN seq :
                    \/ seq[i].stars > seq[j].stars
                    \/ seq[i].stars = seq[j].stars /\ i <= j
         IN  <<seq[k]>> \o SortByStars(SubSeq(seq, 1, k - 1) \o SubSeq(seq, k + 1, Len(seq)))

\* the Top command on the rows in the order get_all_skills gave them
Top(scores, all_skills, c) ==
    LET trusted == SelectSeq(all_skills, LAMBDA sk : ~c.trusted \/ sk.trusted)
        scored == SelectSeq(trusted, LAMBDA sk : SkillQuality(scores, sk) >= c.min_score)
        lines == [k \in DOMAIN scored |->
                     [name |-> scored[k].name, stars |-> scored[k].stars,
                      registry |-> scored[k].registry, trusted |-> scored[k].trusted,
                      quality_score |-> SkillQuality(scores, scored[k]),
                      description |-> scored[k].description]]
    IN  Take(SortByStars(lines), c.limit)

-----------------------------------------------------------------------------
(* Actions: one per call                                                  *)

\* how often the same call has now been made in a row (capped at 2)
Rep(op, args) ==
    IF lastCall.op = op /\ lastCall.args = args THEN 2 ELSE 1

Call(op, args, ok, ret, old) ==
    [op |-> op, args |-> args, ok |-> ok, ret |-> ret, old |-> old,
     rep |-> Rep(op, args)]

Idle == pc = "idle"

\* mutant: upsert_skill also adds the row's document to the index
UpsertSkill_Indexing(s) ==
    /\ Idle
    /\ skills' = UpsertRows(skills, s)
    /\ last_insert_rowid' = RowidAfterUpsert(skills, s, last_insert_rowid)
    /\ docs' = Append(docs, Doc(s))
    /\ lastCall' = Call("upsert_skill", <<s>>, TRUE,
                        Some(UpsertReturn(skills, s, last_insert_rowid)),
                        OldRow(skills, s.registry, s.slug))
    /\ UNCHANGED <<cmd, sync_state, mirrors, now, pc, reg_idx, attempted>>

\* Database::upsert_skill
UpsertSkill(s) ==
    /\ Idle
    /\ skills' = UpsertRows(skills, s)
    /\ last_insert_rowid' = RowidAfterUpsert(skills, s, last_insert_rowid)
    /\ lastCall' = Call("upsert_skill", <<s>>, TRUE,
                        Some(UpsertReturn(skills, s, last_insert_rowid)),
                        OldRow(skills, s.registry, s.slug))
    /\ UNCHANGED <<cmd, sync_state, docs, mirrors, now, pc, reg_idx, attempted>>

\* Database::update_stars
UpdateStars(registry, slug, stars) ==
    /\ Idle
    /\ skills' = UpdateStarsRows(skills, registry, slug, stars)
    /\ lastCall' = Call("update_stars", <<registry, slug, stars>>, TRUE, None,
                        OldRow(skills, registry, slug))
    /\ UNCHANGED <<cmd, sync_state, last_insert_rowid, docs, mirrors, now, pc,
                   reg_idx, attempted>>

\* Database::get_skill: SELECT ... WHERE registry = ? AND slug = ? LIMIT 1
GetSkill(registry, slug) ==
    /\ Idle
    /\ \E r \in (IF RowsByKey(skills, registry, slug) = {} THEN {None}
                 ELSE { Some(skills[i]) : i \in RowsByKey(skills, registry, slug) }) :
          lastCall' = Call("get_skill", <<registry, slug>>, TRUE, r, None)
    /\ UNCHANGED <<cmd, skills, sync_state, last_insert_rowid, docs, mirrors, now,
                   pc, reg_idx, attempted>>

\* Database::get_skill_by_slug: SELECT ... WHERE slug = ? LIMIT 1.  The
\* statement has no ORDER BY, so which of several matching rows comes first
\* is not determined by the statement: any of them may be returned.
GetSkillBySlug(slug) ==
    /\ Idle
    /\ \E r \in (IF RowsBySlug(skills, slug) = {} THEN {None}
                 ELSE { Some(skills[i]) : i \in RowsBySlug(skills, slug) }) :
          lastCall' = Call("get_skill_by_slug", <<slug>>, TRUE, r, None)
    /\ UNCHANGED <<cmd, skills, sync_state, last_insert_rowid, docs, mirrors, now,
                   pc, reg_idx, attempted>>

\* Database::set_last_sync called by itself
SetLastSyncCall(registry, timestamp, etag) ==
    /\ Idle
    /\ sync_state' = SetLastSync(sync_state, registry, timestamp, etag)
    /\ lastCall' = Call("set_last_sync", <<registry, timestamp, etag>>, TRUE, None, None)
    /\ UNCHANGED <<cmd, skills, last_insert_rowid, docs, mirrors, now, pc, reg_idx,
                   attempted>>

\* Database::clear_sync_state: DELETE FROM sync_state
ClearSyncState ==
    /\ Idle
    /\ sync_state' = ClearSyncStateRows(sync_state)
    /\ lastCall' = Call("clear_sync_state", << >>, TRUE, None, None)
    /\ UNCHANGED <<cmd, skills, last_insert_rowid, docs, mirrors, now, pc, reg_idx,
                   attempted>>

\* Database::open by a new process: a fresh connection on the same file
Open ==
    /\ Idle
    /\ last_insert_rowid' = 0
    /\ lastCall' = Call("open", << >>, TRUE, None, None)
    /\ UNCHANGED <<cmd, skills, sync_state, docs, mirrors, now, pc, reg_idx,
                   attempted>>

\* sync_all_registries up to the loop: create_dir_all(repos_dir)?
SyncAllStart(mkdir_ok) ==
    /\ Idle
    /\ IF mkdir_ok
       THEN /\ pc' = "registries"
            /\ reg_idx' = 1
            /\ lastCall' = Call("sync_all_registries:start", << >>, TRUE, None, None)
       ELSE /\ lastCall' = Call("sync_all_registries", << >>, FALSE, None, None)
            /\ UNCHANGED <<pc, reg_idx>>
    /\ attempted' = << >>
    /\ UNCHANGED <<cmd, skills, sync_state, last_insert_rowid, docs, mirrors, now>>

\* mutant: `sync_registry(db, repos_dir, registry).await?` in the loop, so
\* that the first registry error ends sync_all_registries
SyncRegistry_Propagate(git, fail_at) ==
    /\ pc = "registries"
    /\ \E registry \in { REGISTRIES[reg_idx] } :
       \E res \in { SyncRegistryResult(registry, git, fail_at, now) } :
       LET done == Append(attempted, <<registry.name, res.ok>>)
       IN  /\ git = "pull_fail" => mirrors[registry.name] # 0
           /\ fail_at <= Len(Tree(registry.name, res.mirror).entries) + 1
           /\ fail_at # 0 => res.scanned
           /\ mirrors' = [mirrors EXCEPT ![registry.name] = res.mirror]
           /\ skills' = res.rows
           /\ last_insert_rowid' = res.rowid
           /\ sync_state' = res.state
           /\ IF res.ok
              THEN /\ attempted' = done
                   /\ lastCall' = Call("sync_registry", <<registry.name>>, TRUE,
                                       [git |-> res.git, scanned |-> res.scanned],
                                       Some(StarsOf(skills, registry.name)))
                   /\ reg_idx' = reg_idx + 1
                   /\ pc' = IF reg_idx = Len(REGISTRIES) THEN "stars" ELSE "registries"
              ELSE /\ attempted' = << >>
                   /\ lastCall' = Call("sync_all_registries", << >>, FALSE,
                                       <<done, FALSE>>, None)
                   /\ reg_idx' = 1
                   /\ pc' = "idle"
    /\ UNCHANGED <<cmd, docs, now>>

\* one iteration of `for registry in REGISTRIES`: sync_registry, whose
\* error is logged and dropped; the call record keeps the git commands run,
\* whether the scan was started, and the stars the registry's rows held
\* before the call
SyncRegistry(git, fail_at) ==
    /\ pc = "registries"
    /\ \E registry \in { REGISTRIES[reg_idx] } :
       \E res \in { SyncRegistryResult(registry, git, fail_at, now) } :
           /\ git = "pull_fail" => mirrors[registry.name] # 0
           /\ fail_at <= Len(Tree(registry.name, res.mirror).entries) + 1
           /\ fail_at # 0 => res.scanned
           /\ mirrors' = [mirrors EXCEPT ![registry.name] = res.mirror]
           /\ skills' = res.rows
           /\ last_insert_rowid' = res.rowid
           /\ sync_state' = res.state
           /\ attempted' = Append(attempted, <<registry.name, res.ok>>)
           /\ lastCall' = Call("sync_registry", <<registry.name>>, res.ok,
                               [git |-> res.git, scanned |-> res.scanned],
                               Some(StarsOf(skills, registry.name)))
    /\ reg_idx' = reg_idx + 1
    /\ pc' = IF reg_idx = Len(REGISTRIES) THEN "stars" ELSE "registries"
    /\ UNCHANGED <<cmd, docs, now>>

\* the end of sync_all_registries: fetch_clawdhub_stars, whose error is
\* logged and dropped, then Ok(()); inside a command, main goes on after
\* the call.  The call record keeps the registries attempted, whether the
\* fetch succeeded, and the requests and the map of the fetch.
FetchClawdhubStars(scn) ==
    /\ pc = "stars"
    /\ \E got \in { FetchPages(scn, None, << >>, << >>) } :
          /\ skills' = StarsRefreshed(skills, got)
          /\ lastCall' = Call("sync_all_registries", << >>, TRUE,
                              <<attempted, got.ok,
                                [scn |-> scn, asked |-> got.asked, map |-> got.map]>>,
                              None)
    /\ pc' = IF cmd = None THEN "idle" ELSE "synced"
    /\ reg_idx' = 1
    /\ attempted' = << >>
    /\ UNCHANGED <<cmd, sync_state, last_insert_rowid, docs, mirrors, now>>

\* scan_skills_dir on an empty table, for the registry at index k and the
\* entries read_dir has listed; the read of entry fail_at fails (0: none)
ScanSkillsDirCall(k, fail_at) ==
    /\ Idle
    /\ lastCall.op = "read_dir"
    /\ fail_at <= Len(lastCall.ret)
    /\ \E db \in { ScanSkillsDir([rows |-> skills, rowid |-> last_insert_rowid],
                                 REGISTRIES[k], lastCall.ret, 1, fail_at, now) } :
          /\ skills' = db.rows
          /\ last_insert_rowid' = db.rowid
    /\ lastCall' = Call("scan_skills_dir", <<REGISTRIES[k].name, lastCall.ret>>,
                        fail_at = 0, None, None)
    /\ UNCHANGED <<cmd, sync_state, docs, mirrors, now, pc, reg_idx, attempted>>

\* process_skill after fs::read_to_string: parse_skill_frontmatter on the
\* text read; the call record keeps the pieces of the manifest beside its
\* text
ParseSkillFrontmatterCall ==
    /\ Idle
    /\ lastCall.op = "read_to_string"
    /\ lastCall' = Call("parse_skill_frontmatter", lastCall.args, TRUE,
                        ParseFrontmatterText(lastCall.ret), None)
    /\ UNCHANGED <<cmd, skills, sync_state, last_insert_rowid, docs, mirrors, now,
                   pc, reg_idx, attempted>>

\* the clock
Tick ==
    /\ Idle
    /\ now < MaxTime
    /\ now' = now + 1
    /\ UNCHANGED <<cmd, skills, sync_state, last_insert_rowid, docs, mirrors, pc,
                   reg_idx, attempted, lastCall>>

\* mutant: rebuild adds the documents without delete_all_documents
Rebuild_NoDelete(ok) ==
    /\ Idle
    /\ \E order \in Permutations(DOMAIN skills) :
          docs' = IF ok THEN docs \o [k \in DOMAIN skills |-> Doc(skills[order[k]])] ELSE docs
    /\ lastCall' = Call("rebuild", << >>, ok, None,
                        Some(\E k \in DOMAIN docs : \A i \in DOMAIN skills :
                                docs[k] # Doc(skills[i])))
    /\ UNCHANGED <<cmd, skills, sync_state, last_insert_rowid, mirrors, now, pc,
                   reg_idx, attempted>>

\* SearchIndex::rebuild: delete_all_documents, one document per row of
\* get_all_skills, commit; an error before the commit leaves the committed
\* documents as they were.  get_all_skills selects without ORDER BY, so the
\* rows, and with them the documents, come in any order.  The call record
\* keeps whether the index held a document that is not the document of a
\* row the Store has now.
Rebuild(ok) ==
    /\ Idle
    /\ \E order \in Permutations(DOMAIN skills) :
          docs' = IF ok THEN [k \in DOMAIN skills |-> Doc(skills[order[k]])] ELSE docs
    /\ lastCall' = Call("rebuild", << >>, ok, None,
                        Some(\E k \in DOMAIN docs : \A i \in DOMAIN skills :
                                docs[k] # Doc(skills[i])))
    /\ UNCHANGED <<cmd, skills, sync_state, last_insert_rowid, mirrors, now, pc,
                   reg_idx, attempted>>

\* SearchIndex::search
Search(query, limit, registry) ==
    /\ Idle
    /\ lastCall' = Call("search", <<query, limit, registry>>, TRUE,
                        SearchResults(docs, query, limit, registry), None)
    /\ UNCHANGED <<cmd, skills, sync_state, last_insert_rowid, docs, mirrors, now,
                   pc, reg_idx, attempted>>

\* normalize_slug called by itself
NormalizeSlugCall(str) ==
    /\ Idle
    /\ lastCall' = Call("normalize_slug", <<str>>, TRUE, NormalizeSlug(str), None)
    /\ UNCHANGED <<cmd, skills, sync_state, last_insert_rowid, docs, mirrors, now,
                   pc, reg_idx, attempted>>

\* QualityScores::get_score on the loaded dataset
GetScoreCall(registry, slug) ==
    /\ Idle
    /\ lastCall' = Call("get_score", <<registry, slug>>, TRUE,
                        GetScore(Scores, registry, slug), None)
    /\ UNCHANGED <<cmd, skills, sync_state, last_insert_rowid, docs, mirrors, now,
                   pc, reg_idx, attempted>>

\* the score expression of the commands, for a skill with this slug and name
QualityScoreCall(registry, slug, name) ==
    /\ Idle
    /\ lastCall' = Call("quality_score", <<registry, slug, name>>, TRUE,
                        QualityScore(Scores, registry, slug, name), None)
    /\ UNCHANGED <<cmd, skills, sync_state, last_insert_rowid, docs, mirrors, now,
                   pc, reg_idx, attempted>>

\* QualityScores::load on the entries read from the embedded dataset
LoadCall ==
    /\ Idle
    /\ lastCall.op = "from_str"
    /\ lastCall' = Call("load", <<lastCall.ret>>, TRUE, Load(lastCall.ret), None)
    /\ UNCHANGED <<cmd, skills, sync_state, last_insert_rowid, docs, mirrors, now,
                   pc, reg_idx, attempted>>

\* the process ends: exit status (ok: zero), what it printed, whether the
\* Store was empty at start, whether the bootstrap ran, and the Store and
\* Indexer operations that returned an error
Exit(ok, out, errors) ==
    /\ lastCall' = Call("main", <<cmd[1].command>>, ok,
                        [out |-> out, empty |-> cmd[1].empty,
                         booted |-> cmd[1].empty /\ cmd[1].stage # "boot",
                         errors |-> errors], None)
    /\ cmd' = None
    /\ pc' = "idle"

\* main up to the bootstrap test: the data directory, Database::open,
\* SearchIndex::open_or_create, QualityScores::load, needs_initial_sync.
\* failed names the operation that returned an error, if one did.
Start(command, failed) ==
    /\ Idle
    /\ cmd = None
    /\ last_insert_rowid' = 0
    /\ IF failed = None
       THEN /\ cmd' = Some([command |-> command, empty |-> NeedsInitialSync(skills),
                            stage |-> IF NeedsInitialSync(skills) THEN "boot" ELSE "command"])
            /\ pc' = IF NeedsInitialSync(skills) THEN "boot" ELSE "command"
            /\ lastCall' = Call("main:start", <<command>>, TRUE, None, None)
       ELSE /\ lastCall' = Call("main", <<command>>, FALSE,
                                [out |-> << >>, empty |-> NeedsInitialSync(skills),
                                 booted |-> FALSE, errors |-> {failed[1]}], None)
            /\ UNCHANGED <<cmd, pc>>
    /\ UNCHANGED <<skills, sync_state, docs, mirrors, now, reg_idx, attempted>>

\* the bootstrap: sync_all_registries begins (create_dir_all(repos_dir)?)
BootStart(mkdir_ok) ==
    /\ pc = "boot"
    /\ IF mkdir_ok
       THEN /\ pc' = "registries"
            /\ lastCall' = Call("sync_all_registries:start", << >>, TRUE, None, None)
            /\ UNCHANGED cmd
       ELSE Exit(FALSE, << >>, {})
    /\ reg_idx' = 1
    /\ attempted' = << >>
    /\ UNCHANGED <<skills, sync_state, last_insert_rowid, docs, mirrors, now>>

\* mutant: search_index.rebuild(&db)? before sync_skillssh(&mut db)?, so that
\* the index is rebuilt although sync_skillssh fails
AfterSync_RebuildFirst(skillssh_ok, rebuild_ok) ==
    /\ pc = "synced"
    /\ \E order \in Permutations(DOMAIN skills) :
          docs' = IF rebuild_ok THEN [k \in DOMAIN skills |-> Doc(skills[order[k]])]
                  ELSE docs
    /\ IF skillssh_ok /\ rebuild_ok
       THEN IF cmd[1].stage = "boot"
            THEN /\ cmd' = Some([cmd[1] EXCEPT !.stage = "command"])
                 /\ pc' = "command"
                 /\ lastCall' = Call("main:bootstrapped", <<cmd[1].command>>, TRUE, None, None)
            ELSE Exit(TRUE, <<"Sync complete">>, {})
       ELSE Exit(FALSE, << >>, IF rebuild_ok THEN {} ELSE {"rebuild"})
    /\ UNCHANGED <<skills, sync_state, last_insert_rowid, mirrors, now, reg_idx, attempted>>

\* main after sync_all_registries returned Ok: sync_skillssh(&mut db)?, then
\* search_index.rebuild(&db)?.  After the bootstrap main goes on to the
\* command; the Sync command is complete.
AfterSync(skillssh_ok, rebuild_ok) ==
    /\ pc = "synced"
    /\ IF skillssh_ok /\ rebuild_ok
       THEN /\ \E order \in Permutations(DOMAIN skills) :
                  docs' = [k \in DOMAIN skills |-> Doc(skills[order[k]])]
            /\ IF cmd[1].stage = "boot"
               THEN /\ cmd' = Some([cmd[1] EXCEPT !.stage = "command"])
                    /\ pc' = "command"
                    /\ lastCall' = Call("main:bootstrapped", <<cmd[1].command>>, TRUE, None, None)
               ELSE Exit(TRUE, <<"Sync complete">>, {})
       ELSE /\ docs' = docs
            /\ Exit(FALSE, << >>, IF skillssh_ok THEN {"rebuild"} ELSE {})
    /\ UNCHANGED <<skills, sync_state, last_insert_rowid, mirrors, now, reg_idx, attempted>>

\* Commands::Sync: clear_sync_state()? when forced, then
\* sync_all_registries begins; the call record keeps the bookkeeping a
\* forced sync cleared
CmdSync(clear_ok, mkdir_ok) ==
    /\ pc = "command"
    /\ cmd[1].command.name = "sync"
    /\ ~clear_ok => cmd[1].command.force
    /\ sync_state' = IF cmd[1].command.force /\ clear_ok
                     THEN ClearSyncStateRows(sync_state) ELSE sync_state
    /\ IF clear_ok /\ mkdir_ok
       THEN /\ pc' = "registries"
            /\ cmd' = Some([cmd[1] EXCEPT !.stage = "sync"])
            /\ lastCall' = Call("sync_all_registries:start", << >>, TRUE, None,
                                IF cmd[1].command.force THEN Some(sync_state) ELSE None)
       ELSE Exit(FALSE, << >>, IF clear_ok THEN {} ELSE {"clear_sync_state"})
    /\ reg_idx' = 1
    /\ attempted' = << >>
    /\ UNCHANGED <<skills, last_insert_rowid, docs, mirrors, now>>

\* Commands::Search.  search_ok: search_index.search returns Ok; lookup_err:
\* the candidates for which db.get_skill returns an error
CmdSearch(search_ok, lookup_err) ==
    /\ pc = "command"
    /\ cmd[1].command.name = "search"
    /\ LET c == cmd[1].command
           results == SearchResults(docs, c.query, c.limit * 4, c.registry)
       IN  /\ lookup_err \subseteq DOMAIN results
           /\ ~search_ok => lookup_err = {}
           /\ IF search_ok
              THEN Exit(TRUE, Retrieve(Scores, docs, skills, c, lookup_err),
                        IF lookup_err = {} THEN {} ELSE {"get_skill"})
              ELSE Exit(FALSE, << >>, {"search"})
    /\ UNCHANGED <<skills, sync_state, last_insert_rowid, docs, mirrors, now,
                   reg_idx, attempted>>

\* Commands::Show: get_skill_by_slug(&slug)?, then the skill is printed or
\* "Skill not found" and exit(1)
CmdShow(lookup_ok) ==
    /\ pc = "command"
    /\ cmd[1].command.name = "show"
    /\ IF ~lookup_ok THEN Exit(FALSE, << >>, {"get_skill_by_slug"})
       ELSE IF RowsBySlug(skills, cmd[1].command.slug) = {} THEN Exit(FALSE, << >>, {})
       ELSE \E i \in RowsBySlug(skills, cmd[1].command.slug) :
               Exit(TRUE, <<Shown(Scores, skills[i])>>, {})
    /\ UNCHANGED <<skills, sync_state, last_insert_rowid, docs, mirrors, now,
                   reg_idx, attempted>>

\* Commands::Url
CmdUrl(lookup_ok) ==
    /\ pc = "command"
    /\ cmd[1].command.name = "url"
    /\ IF ~lookup_ok THEN Exit(FALSE, << >>, {"get_skill_by_slug"})
       ELSE IF RowsBySlug(skills, cmd[1].command.slug) = {} THEN Exit(FALSE, << >>, {})
       ELSE \E i \in RowsBySlug(skills, cmd[1].command.slug) :
               Exit(TRUE, <<skills[i].github_url>>, {})
    /\ UNCHANGED <<skills, sync_state, last_insert_rowid, docs, mirrors, now,
                   reg_idx, attempted>>

\* Commands::Top: get_all_skills()? gives the rows in some order
CmdTop(scan_ok) ==
    /\ pc = "command"
    /\ cmd[1].command.name = "top"
    /\ IF ~scan_ok THEN Exit(FALSE, << >>, {"get_all_skills"})
       ELSE \E order \in Permutations(DOMAIN skills) :
               Exit(TRUE, Top(Scores,
                              [k \in DOMAIN skills |-> skills[order[k]]], cmd[1].command), {})
    /\ UNCHANGED <<skills, sync_state, last_insert_rowid, docs, mirrors, now,
                   reg_idx, attempted>>

\* outside the program: the database file is removed between two runs, and
\* the next Database::open creates it anew; the index directory and the
\* mirrors stay
DbFileRemoved ==
    /\ Idle
    /\ cmd = None
    /\ skills # << >>
    /\ skills' = << >>
    /\ sync_state' = [r \in DOMAIN sync_state |-> None]
    /\ last_insert_rowid' = 0
    /\ lastCall' = Call("db_file_removed", << >>, TRUE, None, None)
    /\ UNCHANGED <<cmd, docs, mirrors, now, pc, reg_idx, attempted>>

-----------------------------------------------------------------------------
(* Inputs                                                                  *)

\* Skill values as the tests build them; A and B differ in every field
SkillA(slug, registry) ==
    MkSkill(slug, <<"Calendar", "Manager">>, registry, <<"Manage", "events">>,
            << <<"#", "Test">>, <<"XYZABC123">> >>,
            <<"https://github.com/test/", <<"a">> >>, Some("1.0.0"), 0, FALSE, 1)

SkillB(slug, registry) ==
    MkSkill(slug, <<"PDF", "Reader">>, registry, <<"Read", "pdf">>,
            << <<"#", "Other">> >>,
            <<"https://github.com/test/", <<"b">> >>, None, 100, TRUE, 2)

Slugs == {"cal", "pdf"}

StoreInputs ==
    { SkillA("cal", "clawdhub"), SkillB("cal", "clawdhub"),
      SkillA("cal", "anthropic"), SkillB("pdf", "clawdhub") }

MixedInputs == { SkillA("cal", "clawdhub") }

IndexInputs == { SkillA("pdf", "anthropic"), SkillB("cal", "clawdhub") }

StarValues == {0, 42}

Queries == { <<"calendar">>, <<"PDF">>, <<"events", "reader">>, <<"nothing">> }

Filters == { None, Some("clawdhub"), Some("anthropic"), Some("Anthropic") }

GitOutcomes == {"ok", "pull_fail", "fail", "spawn_err"}

\* most entries directly under a scanned skills path
MaxEntries == 3

\* the entries a scanned skills path is made of: files, flat skill
\* directories (one unreadable, one with a skill directory of its own beneath
\* it), and group directories: of one skill, of a file, an unreadable and a
\* readable skill, empty, and of a skill one level further down
ScanEntries ==
    { File("README.md"),
      SkillDir("cal", MdCalV1),
      SkillDir("agenda", MdCalA),
      BadSkillDir("broken"),
      [SkillDir("suite", MdCalA) EXCEPT !.subs = << SkillDir("part", MdCalV2) >>],
      GroupDir("alice", << SkillDir("cal", MdCalV2) >>),
      GroupDir("bob", << File("notes.txt"), BadSkillDir("draft"), SkillDir("mail", MdCalV1) >>),
      GroupDir("empty", << >>),
      GroupDir("deep", << GroupDir("inner", << SkillDir("far", MdCalV1) >>) >>) }

ScanTrees ==
    UNION { [1..n -> ScanEntries] : n \in 0..MaxEntries }

\* most entries of a dataset given to load
MaxDataset == 2

\* longest string of the enumerated lookup strings
MaxStr == 2

\* characters of the enumerated lookup strings
KeyChars == {"M", "m", "y", "-", "_", " ", "!"}

\* strings as the tests and the dataset spell them
StrMySkill == <<"M", "y", "-", "S", "k", "i", "l", "l">>
StrMySkillLower == <<"m", "y", "-", "s", "k", "i", "l", "l">>
StrMySkillBang == <<"m", "y", " ", "-", "S", "K", "I", "L", "L", "!">>
StrSkillName == <<"S", "K", "I", "L", "L", "_", "N", "A", "M", "E">>
StrCal == <<"c", "a", "l">>
StrCalendar == <<"C", "a", "l", "e", "n", "d", "a", "r">>
StrAgenda == <<"A", "g", "e", "n", "d", "a">>
StrPdf == <<"p", "d", "f">>

\* the lookup strings: every string over KeyChars up to MaxStr, and the
\* named ones
LookupStrings ==
    UNION { [1..n -> KeyChars] : n \in 0..MaxStr }
    \cup {StrMySkill, StrMySkillLower, StrMySkillBang, StrSkillName, StrCal,
          StrCalendar, StrAgenda, StrPdf}

\* the slugs and names of the skills scores are asked for
ScoredStrings == {StrMySkill, StrMySkillLower, StrCal, StrCalendar, StrAgenda, StrPdf}

\* the commands of the model
SyncCommand(force) == [name |-> "sync", force |-> force]
SearchCommand(query, limit, registry, trusted, min_score) ==
    [name |-> "search", query |-> query, limit |-> limit, registry |-> registry,
     trusted |-> trusted, min_score |-> min_score]
ShowCommand(slug) == [name |-> "show", slug |-> slug]
UrlCommand(slug) == [name |-> "url", slug |-> slug]
TopCommand(limit, trusted, min_score) ==
    [name |-> "top", limit |-> limit, trusted |-> trusted, min_score |-> min_score]

\* min_score values: show all, between the two scores of the dataset, the
\* default
MinScores == {0, 80}

Commands ==
    { SyncCommand(force) : force \in BOOLEAN }
    \cup { SearchCommand(<<"calendar", "no">>, 1, None, FALSE, min_score) :
              min_score \in MinScores }
    \cup { SearchCommand(<<"calendar", "no">>, 1, None, TRUE, 0) }
    \cup { ShowCommand("cal"), UrlCommand("cal") }
    \cup { TopCommand(1, FALSE, min_score) : min_score \in MinScores }

\* what can fail before the bootstrap test
StartFailures == { None, Some("open") }

\* Manifests for parse_skill_frontmatter, written from their pieces: an
\* opening "---" line or none, one key line `key: val` (or none) with or
\* without the lines of the other two keys, a closing "---" line or none, a
\* line of text or none, and a heading line or none.
MaxVal == 3

ValueChars == {"a", DQ, SQ, " "}

\* the texts after "key: " on a key line
ValueTexts == UNION { [1..n -> ValueChars] : n \in 0..MaxVal }

FrontmatterKeys == {"name", "description", "version"}

HeadingTexts == { <<"H">>, <<" ", "H", " ", "i", " ">> }

ManifestParts ==
    [open : BOOLEAN, key : FrontmatterKeys \cup {"none"}, val : ValueTexts,
     others : BOOLEAN, closed : BOOLEAN, pre : BOOLEAN,
     heading : {None} \cup { Some(h) : h \in HeadingTexts }]

-----------------------------------------------------------------------------
(* Specifications                                                          *)

Init ==
    /\ skills = << >>
    /\ sync_state = [r \in RegNames |-> None]
    /\ last_insert_rowid = 0
    /\ docs = << >>
    /\ mirrors = [r \in RegNames |-> 0]
    /\ now = 1
    /\ pc = "idle"
    /\ reg_idx = 1
    /\ attempted = << >>
    /\ lastCall = [op |-> "open", args |-> << >>, ok |-> TRUE, ret |-> None,
                   old |-> None, rep |-> 1]
    /\ cmd = None

\* Store calls mixed with sync runs whose git commands succeed or fail
Next ==
    \/ \E s \in MixedInputs : UpsertSkill(s)
    \/ \E r \in {"clawdhub", "anthropic"} : UpdateStars(r, "cal", 42)
    \/ \E mkdir_ok \in BOOLEAN : SyncAllStart(mkdir_ok)
    \/ \E git \in {"ok", "fail"} : SyncRegistry(git, 0)
    \/ \E scn \in {1, 4} : FetchClawdhubStars(scn)
    \/ Tick

Spec == Init /\ [][Next]_vars

\* the Store alone, as its callers and tests use it
NextStore ==
    \/ \E s \in StoreInputs : UpsertSkill(s)
    \/ \E r \in {"clawdhub", "anthropic"}, slug \in Slugs, n \in StarValues :
          UpdateStars(r, slug, n)
    \/ \E r \in {"clawdhub", "anthropic"}, slug \in Slugs : GetSkill(r, slug)
    \/ \E slug \in Slugs : GetSkillBySlug(slug)
    \/ \E etag \in {None, Some("etag123")} : SetLastSyncCall("clawdhub", 1234567890, etag)
    \/ ClearSyncState
    \/ Open

SpecStore == Init /\ [][NextStore]_vars

\* sync runs alone, with every outcome of the git commands and of the scan
NextSync ==
    \/ \E mkdir_ok \in BOOLEAN : SyncAllStart(mkdir_ok)
    \/ \E git \in GitOutcomes, fail_at \in 0..4 : SyncRegistry(git, fail_at)
    \/ \E scn \in {1, 4} : FetchClawdhubStars(scn)
    \/ Tick

SpecSync == Init /\ [][NextSync]_vars

\* sync runs whose scans are complete, with every listing of the clawdhub
\* API
NextStars ==
    \/ SyncAllStart(TRUE)
    \/ \E git \in {"ok", "fail"} : SyncRegistry(git, 0)
    \/ \E scn \in ApiScenarios : FetchClawdhubStars(scn)
    \/ Tick

SpecStars == Init /\ [][NextStars]_vars

\* the index: Store calls and sync runs between rebuilds and searches
NextIndex ==
    \/ \E s \in IndexInputs : UpsertSkill(s)
    \/ UpdateStars("clawdhub", "cal", 42)
    \/ SyncAllStart(TRUE)
    \/ SyncRegistry("ok", 0)
    \/ FetchClawdhubStars(1)
    \/ \E ok \in BOOLEAN : Rebuild(ok)
    \/ \E q \in {<<"calendar">>, <<"nothing">>}, limit \in 1..MaxLimit,
          r \in {None, Some("anthropic")} : Search(q, limit, r)

SpecIndex == Init /\ [][NextIndex]_vars

\* the Quality Overlay by itself: normalisation and lookups on the loaded
\* dataset
NextQuality ==
    \/ \E str \in LookupStrings : NormalizeSlugCall(str)
    \/ \E r \in {"clawdhub", "anthropic"}, str \in LookupStrings : GetScoreCall(r, str)
    \/ \E r \in {"clawdhub", "anthropic"}, slug \in ScoredStrings, name \in ScoredStrings :
          QualityScoreCall(r, slug, name)

SpecQuality == Init /\ [][NextQuality]_vars

\* the frontmatter parser alone: a manifest has been read, and is parsed
InitFrontmatter ==
    /\ skills = << >>
    /\ sync_state = [r \in RegNames |-> None]
    /\ last_insert_rowid = 0
    /\ docs = << >>
    /\ mirrors = [r \in RegNames |-> 0]
    /\ now = 1
    /\ pc = "idle"
    /\ reg_idx = 1
    /\ attempted = << >>
    /\ cmd = None
    /\ \E parts \in ManifestParts :
          /\ parts.key = "none" => parts.val = << >> /\ ~parts.others
          /\ lastCall = [op |-> "read_to_string", args |-> <<parts>>, ok |-> TRUE,
                         ret |-> Manifest(parts), old |-> None, rep |-> 1]

NextFrontmatter == ParseSkillFrontmatterCall

SpecFrontmatter == InitFrontmatter /\ [][NextFrontmatter]_vars

\* the directory scan alone: the entries of a skills path have been listed,
\* and are scanned for one of the registries
InitScan ==
    /\ skills = << >>
    /\ sync_state = [r \in RegNames |-> None]
    /\ last_insert_rowid = 0
    /\ docs = << >>
    /\ mirrors = [r \in RegNames |-> 0]
    /\ now = 1
    /\ pc = "idle"
    /\ reg_idx = 1
    /\ attempted = << >>
    /\ cmd = None
    /\ \E entries \in ScanTrees :
          lastCall = [op |-> "read_dir", args |-> << >>, ok |-> TRUE,
                      ret |-> entries, old |-> None, rep |-> 1]

NextScan ==
    \E k \in {1, 2}, fail_at \in 0..MaxEntries : ScanSkillsDirCall(k, fail_at)

SpecScan == InitScan /\ [][NextScan]_vars

\* QualityScores::load alone: a dataset has been parsed, of entries whose
\* names, url segments and scores may coincide, and is loaded
InitLoad ==
    /\ skills = << >>
    /\ sync_state = [r \in RegNames |-> None]
    /\ last_insert_rowid = 0
    /\ docs = << >>
    /\ mirrors = [r \in RegNames |-> 0]
    /\ now = 1
    /\ pc = "idle"
    /\ reg_idx = 1
    /\ attempted = << >>
    /\ cmd = None
    /\ \E n \in 0..MaxDataset :
       \E entries \in [1..n -> [name : {StrCal, <<"C", "a", "l", "!">>, StrMySkill},
                                registry : {"clawdhub", "anthropic"},
                                score : {60, 90},
                                url : {<<"g", "/", "c", "a", "l">>,
                                       <<"g", "/", "p", "d", "f", "/">>,
                                       <<"g", "/", "C", "a", "l", "-", "1">>}]] :
          lastCall = [op |-> "from_str", args |-> << >>, ok |-> TRUE,
                      ret |-> entries, old |-> None, rep |-> 1]

NextLoad == LoadCall

SpecLoad == InitLoad /\ [][NextLoad]_vars

\* the program as it is run: one command at a time, each a process from
\* start to exit
NextCli ==
    \/ \E command \in Commands, failed \in StartFailures : Start(command, failed)
    \/ \E mkdir_ok \in BOOLEAN : BootStart(mkdir_ok)
    \/ \E git \in {"ok", "fail"} : SyncRegistry(git, 0)
    \/ FetchClawdhubStars(1)
    \/ \E skillssh_ok \in BOOLEAN, rebuild_ok \in BOOLEAN : AfterSync(skillssh_ok, rebuild_ok)
    \/ \E clear_ok \in BOOLEAN, mkdir_ok \in BOOLEAN : CmdSync(clear_ok, mkdir_ok)
    \/ \E search_ok \in BOOLEAN, lookup_err \in SUBSET (1..4) : CmdSearch(search_ok, lookup_err)
    \/ \E lookup_ok \in BOOLEAN : CmdShow(lookup_ok)
    \/ \E lookup_ok \in BOOLEAN : CmdUrl(lookup_ok)
    \/ \E scan_ok \in BOOLEAN : CmdTop(scan_ok)
    \/ DbFileRemoved

SpecCli == Init /\ [][NextCli]_vars

-----------------------------------------------------------------------------
(* Properties of the Store, checked under SpecStore                        *)

\* the rows of a table stored under (registry, slug)
Stored(rows, registry, slug) ==
    { i \in DOMAIN rows : rows[i].registry = registry /\ rows[i].slug = slug }

\* the fields an upsert replaces
Mutable(row) ==
    <<row.name, row.description, row.skill_md, row.github_url, row.version,
      row.stars, row.trusted, row.updated_at>>

\* C1: a second (or later) upsert_skill with the same Skill value leaves the
\* whole table as the first call left it, with exactly one row for the
\* (registry, slug) of the value.
UpsertIdempotent ==
    [][ (lastCall'.op = "upsert_skill" /\ lastCall'.rep = 2) =>
          /\ skills' = skills
          /\ Cardinality(Stored(skills', lastCall'.args[1].registry,
                                lastCall'.args[1].slug)) = 1 ]_vars

\* C1 witness: the same value was upserted twice in a row into a table that
\* holds another row as well
UpsertTwiceReached ==
    /\ lastCall.op = "upsert_skill"
    /\ lastCall.rep = 2
    /\ lastCall.old # None
    /\ Len(skills) >= 2

\* C2: after upsert_skill on a (registry, slug) that had a row, that row
\* holds the new value in every mutable field and keeps its id, registry
\* and slug.
UpsertLastWriteWins ==
    (lastCall.op = "upsert_skill" /\ lastCall.old # None) =>
        LET s == lastCall.args[1]
            old == lastCall.old[1]
        IN  /\ Stored(skills, s.registry, s.slug) # {}
            /\ \A i \in Stored(skills, s.registry, s.slug) :
                  /\ Mutable(skills[i]) = Mutable(s)
                  /\ skills[i].id = old.id
                  /\ skills[i].registry = old.registry
                  /\ skills[i].slug = old.slug
                  /\ i = old.id

\* C2 witness: an upsert replaced a row from which the new value differs in
\* every mutable field
UpsertReplacedEveryField ==
    /\ lastCall.op = "upsert_skill"
    /\ lastCall.old # None
    /\ \A k \in 1..8 : Mutable(lastCall.old[1])[k] # Mutable(lastCall.args[1])[k]

\* C4 (as claimed): get_skill_by_slug is a function of the stored rows: two
\* calls with the same slug on the same table return the same row.
GetBySlugDeterministic ==
    [][ ( /\ lastCall.op = "get_skill_by_slug"
          /\ lastCall'.op = "get_skill_by_slug"
          /\ lastCall'.args = lastCall.args
          /\ skills' = skills )
        => lastCall'.ret = lastCall.ret ]_vars

\* C5: update_stars(registry, slug, n) changes nothing but the stars of the
\* rows stored under (registry, slug), which become n; the sync state is
\* left as it was.
UpdateStarsTargeted ==
    [][ lastCall'.op = "update_stars" =>
          /\ Len(skills') = Len(skills)
          /\ \A i \in DOMAIN skills :
                skills'[i] =
                    IF /\ skills[i].registry = lastCall'.args[1]
                       /\ skills[i].slug = lastCall'.args[2]
                    THEN [skills[i] EXCEPT !.stars = lastCall'.args[3]]
                    ELSE skills[i]
          /\ sync_state' = sync_state
          /\ last_insert_rowid' = last_insert_rowid ]_vars

\* C5 witness: update_stars changed the stars of one of two rows that share
\* a slug, with a sync state entry present
UpdateStarsReached ==
    /\ lastCall.op = "update_stars"
    /\ lastCall.old # None
    /\ lastCall.old[1].stars # lastCall.args[3]
    /\ \E i \in DOMAIN skills :
          /\ skills[i].slug = lastCall.args[2]
          /\ skills[i].registry # lastCall.args[1]
    /\ \E r \in RegNames : sync_state[r] # None

-----------------------------------------------------------------------------
(* Properties of the Store under the whole pipeline, checked under Spec    *)

\* the (registry, slug) pairs that occur in the model
Keys ==
    RegNames \X Slugs

\* C3: in every reachable state the table holds at most one row per
\* (registry, slug), and an upsert_skill or update_stars on one
\* (registry, slug) leaves the rows of every other key, the rows of the same
\* slug under another registry among them, as they were.
RegistryScopedUnique ==
    /\ [](\A k \in Keys : Cardinality(Stored(skills, k[1], k[2])) <= 1)
    /\ [][ lastCall'.op \in {"upsert_skill", "update_stars"} =>
             LET reg == IF lastCall'.op = "upsert_skill"
                        THEN lastCall'.args[1].registry ELSE lastCall'.args[1]
                 slug == IF lastCall'.op = "upsert_skill"
                         THEN lastCall'.args[1].slug ELSE lastCall'.args[2]
             IN  \A i \in DOMAIN skills :
                    (skills[i].registry # reg \/ skills[i].slug # slug) =>
                        (i \in DOMAIN skills' /\ skills'[i] = skills[i]) ]_vars

\* C3 witness: the same slug is stored under two registries and the last
\* call changed the stars of one of the two rows
SameSlugTwoRegistries ==
    /\ lastCall.op \in {"upsert_skill", "update_stars"}
    /\ lastCall.old # None
    /\ \E i, j \in DOMAIN skills :
          /\ skills[i].slug = skills[j].slug
          /\ skills[i].registry # skills[j].registry
          /\ skills[i].registry = lastCall.old[1].registry
          /\ skills[i].slug = lastCall.old[1].slug
          /\ skills[i].stars # lastCall.old[1].stars

-----------------------------------------------------------------------------
(* Properties of the Ingestor, checked under SpecSync                      *)

\* the names of the registries a run has attempted so far, in order
AttemptedNames(att) ==
    [k \in DOMAIN att |-> att[k][1]]

\* the names of the first n configured registries
FirstRegistries(n) ==
    [k \in 1..n |-> REGISTRIES[k].name]

\* C6: whatever registries fail, sync_all_registries attempts every
\* configured registry, in order, and returns Ok: inside the loop the
\* registries before the current one have all been attempted, the loop is
\* left only after the last one, and an error is returned only before the
\* first registry is attempted (the cache directory cannot be created).
FailureIsolation ==
    /\ pc = "registries" =>
          /\ reg_idx \in 1..Len(REGISTRIES)
          /\ AttemptedNames(attempted) = FirstRegistries(reg_idx - 1)
    /\ pc = "stars" =>
          AttemptedNames(attempted) = FirstRegistries(Len(REGISTRIES))
    /\ lastCall.op = "sync_all_registries" =>
          IF lastCall.ok
          THEN AttemptedNames(lastCall.ret[1]) = FirstRegistries(Len(REGISTRIES))
          ELSE lastCall.ret = None

\* C6 witness: a run returned Ok after the first registry failed and a later
\* one was synced
PartialFailureCompleted ==
    /\ lastCall.op = "sync_all_registries"
    /\ lastCall.ok
    /\ ~lastCall.ret[1][1][2]
    /\ lastCall.ret[1][2][2]
    /\ ~lastCall.ret[1][4][2]

\* C7: sync_registry for registry R, successful or not, leaves the mirror
\* and the sync state entry of every other registry and every row of
\* another registry as they were, and every row it adds or changes has
\* registry R.
SyncRegistryFrame ==
    [][ (pc = "registries" /\ lastCall'.op = "sync_registry") =>
          /\ \A r \in RegNames \ {lastCall'.args[1]} :
                /\ mirrors'[r] = mirrors[r]
                /\ sync_state'[r] = sync_state[r]
          /\ Len(skills') >= Len(skills)
          /\ \A i \in DOMAIN skills :
                skills[i].registry # lastCall'.args[1] => skills'[i] = skills[i]
          /\ \A i \in DOMAIN skills' :
                (i \notin DOMAIN skills \/ skills'[i] # skills[i]) =>
                    skills'[i].registry = lastCall'.args[1] ]_vars

\* C7 witness: a sync of anthropic that failed after writing its row, which
\* no successful sync of anthropic preceded, while clawdhub has a row, a
\* mirror and a sync state entry
FailedSyncWroteRows ==
    /\ lastCall.op = "sync_registry"
    /\ lastCall.args = <<"anthropic">>
    /\ ~lastCall.ok
    /\ sync_state["anthropic"] = None
    /\ \E i \in DOMAIN skills : skills[i].registry = "anthropic"
    /\ \E i \in DOMAIN skills : skills[i].registry = "clawdhub"
    /\ sync_state["clawdhub"] # None
    /\ mirrors["clawdhub"] # 0

-----------------------------------------------------------------------------
(* Properties of the Indexer, checked under SpecIndex                      *)

\* the terms of a row's name, description and manifest text
RowTerms(row) ==
    Terms(row.name) \cup Terms(row.description) \cup Terms(Flatten(row.skill_md))

\* the terms of a document's searched fields
DocTerms(doc) ==
    Terms(doc.name) \cup Terms(doc.description) \cup Terms(doc.content)

\* the (registry, slug) pairs of a result sequence
ResultKeys(results) ==
    { <<results[k].registry, results[k].slug>> : k \in DOMAIN results }

\* C8: right after a successful rebuild, for every row of the table, the
\* query made of any one term of the row's name, description or skill_md
\* returns the row when the limit is the number of documents; and a query
\* none of whose terms occurs in any document returns the empty sequence.
IndexFreshAfterRebuild ==
    (lastCall.op = "rebuild" /\ lastCall.ok) =>
        /\ \A i \in DOMAIN skills : \A term \in RowTerms(skills[i]) :
              <<skills[i].registry, skills[i].slug>> \in
                  ResultKeys(SearchResults(docs, <<term>>, Len(docs), None))
        /\ \A q \in Queries :
              (\A i \in DOMAIN docs : Terms(q) \cap DocTerms(docs[i]) = {}) =>
                  SearchResults(docs, q, MaxLimit, None) = << >>

\* C8 witness: a successful rebuild of a table with two rows, one of which
\* has a term that occurs in its skill_md only
RebuiltWithManifestTerm ==
    /\ lastCall.op = "rebuild"
    /\ lastCall.ok
    /\ Len(skills) >= 2
    /\ \E i \in DOMAIN skills :
          Terms(Flatten(skills[i].skill_md))
              \ (Terms(skills[i].name) \cup Terms(skills[i].description)) # {}
    /\ \E q \in Queries : \A i \in DOMAIN docs : Terms(q) \cap DocTerms(docs[i]) = {}

\* C9: a step of any operation other than rebuild leaves the documents that
\* search reads, and so the results of every query, as they were; and right
\* after an upsert_skill that inserted a new row no query returns that row.
OnlyRebuildChangesSearchable ==
    /\ [][ lastCall'.op # "rebuild" => docs' = docs ]_vars
    /\ []( (lastCall.op = "upsert_skill" /\ lastCall.old = None) =>
             \A q \in Queries : \A f \in Filters :
                <<lastCall.args[1].registry, lastCall.args[1].slug>> \notin
                    ResultKeys(SearchResults(docs, q, MaxLimit, f)) )

\* C9 witness: a new row was upserted after a rebuild of a non-empty table,
\* and a query whose term occurs in the new row returns other rows
UpsertedAfterRebuild ==
    /\ lastCall.op = "upsert_skill"
    /\ lastCall.old = None
    /\ docs # << >>
    /\ Len(skills) > Len(docs)
    /\ \E q \in Queries :
          /\ Terms(q) \cap RowTerms(lastCall.args[1]) # {}
          /\ SearchResults(docs, q, MaxLimit, None) # << >>

\* C10: for every query, limit and filter value R, the filtered search
\* returns only documents whose registry is exactly R, and every document
\* of registry R that the unfiltered search returns with the same limit is
\* returned by the filtered search.
RegistryFilterCorrect ==
    \A q \in Queries : \A limit \in 1..MaxLimit : \A f \in Filters \ {None} :
        LET filtered == SearchResults(docs, q, limit, f)
            plain == SearchResults(docs, q, limit, None)
        IN  /\ \A k \in DOMAIN filtered : filtered[k].registry = f[1]
            /\ \A k \in DOMAIN plain :
                  plain[k].registry = f[1] =>
                      \E j \in DOMAIN filtered : filtered[j] = plain[k]

\* C10 witness: a filtered search returned a document while a document of
\* another registry matches the same query
FilteredSearchOnMixedIndex ==
    /\ lastCall.op = "search"
    /\ lastCall.args[3] = Some("anthropic")
    /\ lastCall.ret # << >>
    /\ \E i \in DOMAIN docs :
          /\ docs[i].registry = "clawdhub"
          /\ Matches(docs[i], lastCall.args[1])

\* the documents of the index that a search with this query and filter
\* matches
Matching(query, registry) ==
    { i \in DOMAIN docs :
        /\ Terms(query) \cap Terms(docs[i].content) # {}
        /\ registry # None => docs[i].registry = registry[1] }

\* C23: a search with limit L returns at most L results, best score first;
\* exactly L when more than L documents of the index match the query, and
\* every matching document when at most L do.
SearchLengthBounded ==
    lastCall.op = "search" =>
        LET limit == lastCall.args[2]
            n == Cardinality(Matching(lastCall.args[1], lastCall.args[3]))
        IN  /\ Len(lastCall.ret) <= limit
            /\ Len(lastCall.ret) = IF n > limit THEN limit ELSE n
            /\ \A j, k \in DOMAIN lastCall.ret :
                  j < k => lastCall.ret[j].score >= lastCall.ret[k].score

\* C23 witness: a search returned exactly its limit of results while more
\* documents matched
SearchCutAtLimit ==
    /\ lastCall.op = "search"
    /\ Cardinality(Matching(lastCall.args[1], lastCall.args[3])) > lastCall.args[2]
    /\ Len(lastCall.ret) = lastCall.args[2]

\* the documents that stand for a row: same slug, registry, name and
\* description, and the manifest in the content
DocsOf(index, row) ==
    { k \in DOMAIN index :
        /\ index[k].slug = row.slug
        /\ index[k].registry = row.registry
        /\ index[k].name = row.name
        /\ index[k].description = row.description
        /\ index[k].content = row.name \o row.description \o Flatten(row.skill_md) }

\* C25: a rebuild that succeeds leaves in the index exactly one document
\* for each row the Store holds and no other document; a rebuild that
\* fails leaves the committed documents as they were.
RebuildFullReplace ==
    [][lastCall'.op = "rebuild" =>
          IF lastCall'.ok
          THEN /\ Len(docs') = Len(skills)
               /\ \A i \in DOMAIN skills : Cardinality(DocsOf(docs', skills[i])) = 1
               /\ \A k \in DOMAIN docs' : \E i \in DOMAIN skills : k \in DocsOf(docs', skills[i])
          ELSE docs' = docs]_vars

\* C25 witness: a rebuild succeeded on an index that held a document
\* which no row of the Store gives any more, and the index now holds one
\* document per row
RebuiltStaleIndex ==
    /\ lastCall.op = "rebuild"
    /\ lastCall.ok
    /\ lastCall.old = Some(TRUE)
    /\ skills # << >>
    /\ Len(docs) = Len(skills)

-----------------------------------------------------------------------------
(* Properties of the Quality Overlay, checked under SpecQuality            *)

\* the dataset entries one of whose two keys is the key of str
EntriesFor(registry, str) ==
    { i \in DOMAIN QualityEntries :
        /\ QualityEntries[i].registry = registry
        /\ \/ NormalizeSlug(QualityEntries[i].name) = NormalizeSlug(str)
           \/ NormalizeSlug(ExtractSlugFromUrl(QualityEntries[i].url)) = NormalizeSlug(str) }

\* the score of the entry of the dataset that answers a lookup of str: the
\* last one in file order
EntryScore(registry, str) ==
    QualityEntries[CHOOSE i \in EntriesFor(registry, str) :
                      \A j \in EntriesFor(registry, str) : j <= i].score

\* the other-case form of a character
SwapCase(c) ==
    IF c \in DOMAIN UpperToLower THEN UpperToLower[c]
    ELSE IF \E u \in DOMAIN UpperToLower : UpperToLower[u] = c
         THEN CHOOSE u \in DOMAIN UpperToLower : UpperToLower[u] = c
         ELSE c

\* str with character c put in before position k
InsertChar(str, k, c) ==
    SubSeq(str, 1, k - 1) \o <<c>> \o SubSeq(str, k, Len(str))

\* C14: the score attached to a skill is the score of the entry matching
\* its slug when there is one, whatever entry the name matches; otherwise
\* the score of the entry matching its name; otherwise 0.
SlugBeforeName ==
    lastCall.op = "quality_score" =>
        LET registry == lastCall.args[1]
            slug == lastCall.args[2]
            name == lastCall.args[3]
        IN  lastCall.ret =
                IF EntriesFor(registry, slug) # {} THEN EntryScore(registry, slug)
                ELSE IF EntriesFor(registry, name) # {} THEN EntryScore(registry, name)
                ELSE 0

\* C14 witness: the slug and the name match entries of different scores
SlugAndNameMatchDifferently ==
    /\ lastCall.op = "quality_score"
    /\ EntriesFor(lastCall.args[1], lastCall.args[2]) # {}
    /\ EntriesFor(lastCall.args[1], lastCall.args[3]) # {}
    /\ EntryScore(lastCall.args[1], lastCall.args[2])
          # EntryScore(lastCall.args[1], lastCall.args[3])

\* C15: a normalized key holds lower-case letters, digits, '-' and '_'
\* only and is what lower-casing the string and dropping its other
\* characters gives; normalizing it again changes nothing; a lookup gives
\* the same result when one letter of the string changes case or a
\* stripped character is put in anywhere; and the entry named "My-Skill" is
\* found by "my-skill".
NormalizationStable ==
    /\ lastCall.op = "normalize_slug" =>
          /\ \A i \in DOMAIN lastCall.ret :
                /\ KeptChar(lastCall.ret[i])
                /\ lastCall.ret[i] \notin DOMAIN UpperToLower
          /\ NormalizeSlug(lastCall.ret) = lastCall.ret
          /\ \A i \in DOMAIN lastCall.args[1] :
                NormalizeSlug([lastCall.args[1] EXCEPT ![i] = SwapCase(@)]) = lastCall.ret
    /\ lastCall.op = "get_score" =>
          /\ \A i \in DOMAIN lastCall.args[2] :
                GetScore(Scores, lastCall.args[1],
                         [lastCall.args[2] EXCEPT ![i] = SwapCase(@)]) = lastCall.ret
          /\ \A k \in 1..(Len(lastCall.args[2]) + 1) : \A c \in {" ", "!", "/"} :
                GetScore(Scores, lastCall.args[1],
                         InsertChar(lastCall.args[2], k, c)) = lastCall.ret
          /\ lastCall.args = <<"anthropic", StrMySkillLower>> => lastCall.ret = Some(85)

\* C15 witness: the entry named "My-Skill" was found by a string that
\* differs from the name in letter case and in stripped characters
FoundByOtherSpelling ==
    /\ lastCall.op = "get_score"
    /\ lastCall.args = <<"anthropic", StrMySkillBang>>
    /\ lastCall.ret = Some(85)

-----------------------------------------------------------------------------
(* Properties of the commands, checked under SpecCli                       *)

\* the process that has just ended ran this command
Ended(name) == lastCall.op = "main" /\ lastCall.args[1].name = name

\* the candidates the Indexer gives search command c on the present index
Candidates(c) == SearchResults(docs, c.query, c.limit * 4, c.registry)

\* the positions of the candidates of c that have a row and pass the
\* filters of c
Passing(c) ==
    { k \in DOMAIN Candidates(c) :
        LET row == OldRow(skills, Candidates(c)[k].registry, Candidates(c)[k].slug)
        IN  /\ row # None
            /\ c.trusted => row[1].trusted
            /\ SkillQuality(Scores, row[1]) >= c.min_score }

\* C11: a search with limit N whose lookups all succeed prints, of at most
\* 4 x N candidates of the Indexer, the first N that pass the trusted-only
\* and the minimum-quality filter, in rank order, and all of them when fewer
\* than N pass; the skill of quality 60 is absent at minimum 80 and present
\* at minimum 0.
RetrieverFiltering ==
    (Ended("search") /\ lastCall.ok /\ lastCall.ret.errors = {}) =>
        LET c == lastCall.args[1]
            out == lastCall.ret.out
            cand == Candidates(c)
            P == Passing(c)
        IN  /\ Len(cand) <= 4 * c.limit
            /\ Len(out) = IF Cardinality(P) < c.limit THEN Cardinality(P) ELSE c.limit
            /\ \A j \in DOMAIN out : \E k \in P :
                  /\ Cardinality({h \in P : h < k}) = j - 1
                  /\ out[j].registry = cand[k].registry
                  /\ out[j].slug = cand[k].slug
                  /\ out[j].search_score = cand[k].score
                  /\ c.trusted => out[j].trusted
                  /\ out[j].quality_score >= c.min_score
            /\ \A k \in DOMAIN cand :
                  (c.registry = None /\ ~c.trusted /\ k <= c.limit
                     /\ OldRow(skills, cand[k].registry, cand[k].slug) # None
                     /\ SkillQuality(Scores, OldRow(skills, cand[k].registry, cand[k].slug)[1]) = 60)
                  => /\ c.min_score = 80 =>
                          \A j \in DOMAIN out : out[j].quality_score # 60
                     /\ c.min_score = 0 =>
                          \E j \in DOMAIN out : /\ out[j].quality_score = 60
                                                /\ out[j].slug = cand[k].slug

\* C11 witness: a trusted-only search printed a skill that is not the best
\* ranked candidate, the best ranked one being of an untrusted registry
FilteredBeyondTheLimit ==
    /\ Ended("search") /\ lastCall.ok /\ lastCall.ret.errors = {}
    /\ lastCall.args[1].trusted
    /\ Len(lastCall.ret.out) = lastCall.args[1].limit
    /\ Len(Candidates(lastCall.args[1])) > lastCall.args[1].limit
    /\ 1 \notin Passing(lastCall.args[1])

\* C12: when the index holds a document whose (registry, slug) has no row,
\* a search whose Indexer query succeeds exits with status zero, and every
\* skill it prints has a row in the Store and is printed with that row's
\* fields.
StaleCandidatesDropped ==
    [][(/\ pc = "command"
        /\ cmd[1].command.name = "search"
        /\ pc' = "idle"
        /\ "search" \notin lastCall'.ret.errors)
       => /\ lastCall'.ok
          /\ \A j \in DOMAIN lastCall'.ret.out :
                LET e == lastCall'.ret.out[j]
                    row == OldRow(skills, e.registry, e.slug)
                IN  /\ row # None
                    /\ e.name = row[1].name
                    /\ e.description = row[1].description
                    /\ e.github_url = row[1].github_url
                    /\ e.stars = row[1].stars
                    /\ e.trusted = row[1].trusted]_vars

\* C12 witness: a search ended with status zero and printed a skill while
\* one of its candidates had no row
SearchedWithStaleDocument ==
    /\ Ended("search") /\ lastCall.ok /\ lastCall.ret.errors = {}
    /\ lastCall.ret.out # << >>
    /\ \E k \in DOMAIN Candidates(lastCall.args[1]) :
          OldRow(skills, Candidates(lastCall.args[1])[k].registry,
                 Candidates(lastCall.args[1])[k].slug) = None

\* no entry of the dataset matches the skill, by slug or by name
Unmatched(skill) ==
    /\ EntriesFor(skill.registry, Spell(skill.slug)) = {}
    /\ EntriesFor(skill.registry, SpellText(skill.name)) = {}

\* the rows a printed line of search, show or top may stand for
RowsPrinted(c, e) ==
    { i \in DOMAIN skills :
        /\ skills[i].registry = e.registry
        /\ skills[i].name = e.name
        /\ c.name = "search" => skills[i].slug = e.slug
        /\ c.name = "show" => skills[i].slug = c.slug }

\* C13: a command that meets no other error ends with status zero whether
\* or not its skills have a quality entry; search, show and top print
\* quality 0 for a skill that no entry matches by slug or by name; search
\* and top leave such a skill out when min_score is above 0 and keep it
\* when min_score is 0.
DefaultQualityZero ==
    [][(/\ pc = "command"
        /\ cmd[1].command.name \in {"search", "show", "top"}
        /\ pc' = "idle"
        /\ lastCall'.ret.errors = {})
       => LET c == cmd[1].command
              out == lastCall'.ret.out
          IN  /\ (c.name = "show" /\ RowsBySlug(skills, c.slug) = {}) \/ lastCall'.ok
              /\ \A j \in DOMAIN out : \A i \in RowsPrinted(c, out[j]) :
                    Unmatched(skills[i]) =>
                        /\ out[j].quality_score = 0
                        /\ c.name # "show" => c.min_score = 0
              /\ (c.name = "top" /\ c.min_score = 0 /\ ~c.trusted) =>
                    Len(out) = IF Len(skills) < c.limit THEN Len(skills) ELSE c.limit
              /\ (c.name = "search" /\ c.min_score = 0 /\ ~c.trusted) =>
                    \A k \in DOMAIN Candidates(c) :
                       (/\ k <= c.limit
                        /\ OldRow(skills, Candidates(c)[k].registry, Candidates(c)[k].slug) # None)
                       => \E j \in DOMAIN out : /\ out[j].slug = Candidates(c)[k].slug
                                                /\ out[j].registry = Candidates(c)[k].registry]_vars

\* C13 witness: a search with min_score 0 printed, with quality 0, a skill
\* that no entry of the dataset matches
PrintedUnmatchedSkill ==
    /\ Ended("search") /\ lastCall.ok
    /\ lastCall.args[1].min_score = 0
    /\ \E j \in DOMAIN lastCall.ret.out :
          /\ lastCall.ret.out[j].quality_score = 0
          /\ \E i \in RowsPrinted(lastCall.args[1], lastCall.ret.out[j]) :
                Unmatched(skills[i])

\* C16: a process goes through the bootstrap exactly when the Store has no
\* row at its start; the requested command begins either at once, on a
\* Store with rows, or after the bootstrap's sync_all_registries went over
\* every registry and its rebuild gave the index one document per row; and
\* a process started on a Store with rows for a command other than sync
\* changes neither the Store, the mirrors nor the index.
AutoBootstrap ==
    [][/\ lastCall'.op = "main:start" =>
             /\ pc' = "boot" <=> skills = << >>
             /\ pc' = "command" <=> skills # << >>
       /\ (pc' = "command" /\ pc # "command") =>
             \/ /\ pc = "idle"
                /\ skills # << >>
                /\ UNCHANGED <<skills, sync_state, docs, mirrors>>
             \/ /\ pc = "synced"
                /\ cmd[1].empty
                /\ lastCall.op = "sync_all_registries" /\ lastCall.ok
                /\ [k \in DOMAIN lastCall.ret[1] |-> lastCall.ret[1][k][1]]
                      = [k \in DOMAIN REGISTRIES |-> REGISTRIES[k].name]
                /\ skills' = skills
                /\ \E order \in Permutations(DOMAIN skills) :
                      docs' = [k \in DOMAIN skills |-> Doc(skills[order[k]])]
       /\ (pc \in {"boot", "registries", "stars", "synced"} /\ cmd # None) =>
             \/ cmd[1].empty /\ cmd[1].stage = "boot"
             \/ cmd[1].command.name = "sync" /\ cmd[1].stage = "sync"
       /\ (cmd # None /\ ~cmd[1].empty /\ cmd[1].command.name # "sync") =>
             UNCHANGED <<skills, sync_state, docs, mirrors>>]_vars

\* C16 witness: a search started on an empty Store is about to run on the
\* rows and the documents the bootstrap made
BootstrappedBeforeCommand ==
    /\ pc = "command"
    /\ cmd[1].empty
    /\ cmd[1].command.name = "search"
    /\ skills # << >>
    /\ Len(docs) = Len(skills)

-----------------------------------------------------------------------------
(* Properties of trust and of the rows under sync, checked under SpecSync  *)

\* the trusted flag the table REGISTRIES gives a registry
RegistryTrusted(name) ==
    (CHOOSE k \in DOMAIN REGISTRIES : REGISTRIES[k].name = name) \in
        { k \in DOMAIN REGISTRIES : REGISTRIES[k].trusted }

\* the manifest declares `trusted: true` in its frontmatter
DeclaresTrusted(md) == FrontValue(md, "trusted:") = Some(<<"true">>)

\* C17: every row written by sync carries the trusted flag of its registry
\* in REGISTRIES, whatever its manifest holds, and no step, the popularity
\* refresh included, changes the flag of a row.
TrustInherited ==
    /\ [](\A i \in DOMAIN skills :
             /\ \E k \in DOMAIN REGISTRIES : REGISTRIES[k].name = skills[i].registry
             /\ skills[i].trusted = RegistryTrusted(skills[i].registry))
    /\ [][\A i \in DOMAIN skills :
             /\ i \in DOMAIN skills'
             /\ skills'[i].trusted = skills[i].trusted]_vars

\* C17 witness: a row of the untrusted registry whose manifest declares
\* `trusted: true` has had its stars refreshed and is not trusted
UntrustedDespiteManifest ==
    /\ lastCall.op = "sync_all_registries"
    /\ \E i \in DOMAIN skills :
          /\ DeclaresTrusted(skills[i].skill_md)
          /\ ~RegistryTrusted(skills[i].registry)
          /\ skills[i].stars > 0
          /\ ~skills[i].trusted

\* the (registry, slug) pairs of the rows
RowKeys(rows) == { <<rows[i].registry, rows[i].slug>> : i \in DOMAIN rows }

\* the slugs of the skill directories in a revision of a registry's tree
TreeSlugs(registry, rev) ==
    LET es == Tree(registry, rev).entries
        skill(e) == e.is_dir /\ e.md # None
    IN  { es[k].name : k \in { k \in DOMAIN es : skill(es[k]) } }
        \cup UNION { { es[k].subs[j].name :
                         j \in { j \in DOMAIN es[k].subs : skill(es[k].subs[j]) } } :
                     k \in DOMAIN es }

\* C18: no step of a sync run or of the popularity refresh, failing or not,
\* removes a (registry, slug) from the Store, and a row of the registry
\* being synced whose skill directory is not in the mirror's tree is left
\* with the values it had.
SyncNeverDeletes ==
    [][/\ RowKeys(skills) \subseteq RowKeys(skills')
       /\ pc = "registries" =>
             \A i \in DOMAIN skills :
                (/\ skills[i].registry = REGISTRIES[reg_idx].name
                 /\ skills[i].slug \notin
                       TreeSlugs(skills[i].registry, mirrors'[skills[i].registry]))
                => /\ i \in DOMAIN skills'
                   /\ skills'[i] = skills[i]]_vars

\* C18 witness: the anthropic registry was synced with success from a tree
\* that no longer holds the skill "cal", and the row is still there
RowOutlivedUpstream ==
    /\ lastCall.op = "sync_registry"
    /\ lastCall.args = <<"anthropic">>
    /\ lastCall.ok
    /\ "cal" \notin TreeSlugs("anthropic", mirrors["anthropic"])
    /\ <<"anthropic", "cal">> \in RowKeys(skills)

-----------------------------------------------------------------------------
(* Properties of the forced sync and of errors, checked under SpecCli      *)

\* C19: when a forced sync command's clear_sync_state succeeds, every
\* registry's SyncState entry is gone, and the rows, the mirrors and the
\* index are as they were.
ForcedClearsOnlyBookkeeping ==
    [][(/\ pc = "command"
        /\ cmd[1].command.name = "sync"
        /\ cmd[1].command.force
        /\ ~(lastCall'.op = "main" /\ "clear_sync_state" \in lastCall'.ret.errors))
       => /\ \A k \in DOMAIN REGISTRIES :
                GetLastSync(sync_state', REGISTRIES[k].name) = None
          /\ skills' = skills
          /\ mirrors' = mirrors
          /\ docs' = docs]_vars

\* C19 witness: a forced sync has cleared the bookkeeping, which held an
\* entry, of a Store that holds rows, mirrors and documents, and is about
\* to sync
ForcedSyncCleared ==
    /\ pc = "registries"
    /\ reg_idx = 1
    /\ cmd # None
    /\ cmd[1].command.name = "sync"
    /\ cmd[1].command.force
    /\ cmd[1].stage = "sync"
    /\ skills # << >>
    /\ docs # << >>
    /\ \E r \in DOMAIN mirrors : mirrors[r] # 0
    /\ \E r \in DOMAIN sync_state : lastCall.old[1][r] # None
    /\ \A r \in DOMAIN sync_state : sync_state[r] = None

\* C20: a process in which a Store or Indexer operation called by main
\* returned an error ends with a non-zero status and prints no result.
ErrorsPropagated ==
    (lastCall.op = "main" /\ lastCall.ret.errors # {}) =>
        /\ ~lastCall.ok
        /\ lastCall.ret.out = << >>

-----------------------------------------------------------------------------
(* Properties of parse_skill_frontmatter, checked under SpecFrontmatter    *)

\* the pieces the parsed manifest was written from
Parts == lastCall.args[1]

\* the manifest has a frontmatter block: an opening and a closing "---"
HasBlock(parts) == parts.open /\ parts.closed

\* the key's line is in the manifest
HasKey(parts, key) == parts.key = key \/ (parts.key # "none" /\ parts.others)

\* the text after the key on its line
RawValue(parts, key) == IF parts.key = key THEN parts.val ELSE OtherValue

\* a value without its surrounding whitespace
Bare(val) ==
    LET inside == { i \in DOMAIN val : val[i] \notin Whitespace }
    IN  IF inside = {} THEN << >>
        ELSE SubSeq(val, CHOOSE i \in inside : \A j \in inside : i <= j,
                    CHOOSE i \in inside : \A j \in inside : j <= i)

\* a value written between two double or two single quote characters
Quoted(v) == Len(v) >= 2 /\ v[1] \in {DQ, SQ} /\ v[Len(v)] = v[1]

\* a value with one layer of matching surrounding quotes removed
Unquoted(v) == IF Quoted(v) THEN SubSeq(v, 2, Len(v) - 1) ELSE v

\* C21: for a manifest with a frontmatter block, each of name, description
\* and version is the text after its key without the surrounding
\* whitespace and without one layer of matching surrounding quote
\* characters, a value not written between quotes being returned as
\* written; a missing version key gives an absent version.
FrontmatterValuesUnquoted ==
    (lastCall.op = "parse_skill_frontmatter" /\ HasBlock(Parts)) =>
        LET expected(key) == Unquoted(Bare(RawValue(Parts, key)))
            plain(key) == Quoted(Bare(RawValue(Parts, key)))
                          \/ Bare(RawValue(Parts, key)) = << >>
                          \/ Bare(RawValue(Parts, key))[1] \notin {DQ, SQ}
        IN  /\ (HasKey(Parts, "name") /\ plain("name") /\ expected("name") # << >>) =>
                  lastCall.ret.name = expected("name")
            /\ (HasKey(Parts, "description") /\ plain("description")) =>
                  lastCall.ret.description = expected("description")
            /\ (HasKey(Parts, "version") /\ plain("version")) =>
                  lastCall.ret.version = Some(expected("version"))
            /\ ~HasKey(Parts, "version") => lastCall.ret.version = None

\* the text of the manifest's first line beginning with "# ", without its
\* surrounding whitespace; empty when there is no such line
HeadingOf(parts) == IF parts.heading = None THEN << >> ELSE Bare(parts.heading[1])

\* the block gives no name: there is no block, or no name line in it, or
\* the name line holds nothing or an empty pair of quotes
NoBlockName(parts) ==
    \/ ~HasBlock(parts)
    \/ ~HasKey(parts, "name")
    \/ Bare(RawValue(parts, "name")) \in {<< >>, <<DQ, DQ>>, <<SQ, SQ>>}

\* C22 as claimed: whenever the manifest has no frontmatter block or the
\* block gives no name, the name is the text of the first "# " line (empty
\* without one) and the description is empty.
FallbackLeavesDescriptionEmpty ==
    (lastCall.op = "parse_skill_frontmatter" /\ NoBlockName(Parts)) =>
        /\ lastCall.ret.name = HeadingOf(Parts)
        /\ lastCall.ret.description = << >>

\* C22: parse_skill_frontmatter returns a result for every input; when the
\* manifest has no frontmatter block or the block gives no name, the name
\* is the text of the first "# " line, and empty without one; the
\* description and the version are then empty and absent when there is no
\* block, and otherwise what the block's lines give; the empty input gives
\* name "", description "" and no version.
FrontmatterFallback ==
    lastCall.op = "parse_skill_frontmatter" =>
        /\ lastCall.ok
        /\ NoBlockName(Parts) =>
              /\ lastCall.ret.name = HeadingOf(Parts)
              /\ ~HasBlock(Parts) =>
                    /\ lastCall.ret.description = << >>
                    /\ lastCall.ret.version = None
              /\ (HasBlock(Parts) /\ Parts.key # "description" /\ Parts.others) =>
                    lastCall.ret.description = OtherValue
              /\ (HasBlock(Parts) /\ ~HasKey(Parts, "description")) =>
                    lastCall.ret.description = << >>
              /\ (HasBlock(Parts) /\ Parts.key = "description"
                     /\ \A i \in DOMAIN Parts.val : Parts.val[i] \notin {DQ, SQ}) =>
                    lastCall.ret.description = Bare(Parts.val)
        /\ Manifest(Parts) = << >> =>
              lastCall.ret = [name |-> << >>, description |-> << >>, version |-> None]

\* C22 witness: a manifest whose block holds a description and no name, and
\* which has a heading, was given the heading as its name and kept the
\* block's description
HeadingNameBlockDescription ==
    /\ lastCall.op = "parse_skill_frontmatter"
    /\ HasBlock(Parts)
    /\ Parts.key = "description" /\ ~Parts.others
    /\ Parts.val = <<"a">>
    /\ Parts.heading = Some(<<" ", "H", " ", "i", " ">>)
    /\ lastCall.ret.name = <<"H", " ", "i">>
    /\ lastCall.ret.description = <<"a">>

-----------------------------------------------------------------------------
(* Properties of the mirrors, checked under SpecSync                       *)

\* the last element of a non-empty sequence
Last(seq) == seq[Len(seq)]

SyncStateBookkeeping ==
    [][pc = "registries" /\ lastCall'.op = "sync_registry" =>
          IF lastCall'.ok
          THEN /\ lastCall'.ret.scanned
               /\ Last(lastCall'.ret.git)[2] = "ok"
               /\ sync_state' = [sync_state EXCEPT ![lastCall'.args[1]] =
                                    Some([last_sync |-> now, etag |-> None])]
          ELSE /\ sync_state' = sync_state
               /\ \A i \in DOMAIN skills :
                     i \in RowsByKey(skills', skills[i].registry, skills[i].slug)]_vars

\* C32 witness: a sync of a registry failed after its scan wrote a row at
\* the present time, and the registry's entry is still that of an earlier
\* completed sync
FailedSyncKeptEntry ==
    /\ lastCall.op = "sync_registry"
    /\ ~lastCall.ok
    /\ lastCall.ret.scanned
    /\ sync_state[lastCall.args[1]] # None
    /\ sync_state[lastCall.args[1]][1].last_sync < now
    /\ \E i \in DOMAIN skills :
          /\ skills[i].registry = lastCall.args[1]
          /\ skills[i].updated_at = now

(***************************************************************************)
(* Properties of the scan and of the stars, checked under SpecStars        *)
(***************************************************************************)

\* the directories of `subs` that hold a readable SKILL.md, with their
\* paths under the repository root
DirsIn(path, subs) ==
    SelectSeq([k \in DOMAIN subs |-> [path |-> Append(path, subs[k].name), dir |-> subs[k]]],
              LAMBDA d : d.dir.is_dir /\ d.dir.md # None /\ d.dir.readable)

\* the skill directories of a tree in the order a scan reaches them
RECURSIVE ScanOrder(_, _, _)
ScanOrder(skills_path, entries, k) ==
    IF k > Len(entries) THEN << >>
    ELSE (IF entries[k].md # None THEN DirsIn(skills_path, <<entries[k]>>)
          ELSE IF entries[k].is_dir
          THEN DirsIn(Append(skills_path, entries[k].name), entries[k].subs)
          ELSE << >>)
         \o ScanOrder(skills_path, entries, k + 1)

SlugOf(d) == d.dir.name

\* the pairs (a, b) of a scan order where b is the last directory of its
\* name and a an earlier one of the same name
Collisions(dirs) ==
    { p \in (DOMAIN dirs) \X (DOMAIN dirs) :
        /\ p[1] < p[2]
        /\ SlugOf(dirs[p[1]]) = SlugOf(dirs[p[2]])
        /\ \A c \in DOMAIN dirs : c > p[2] => SlugOf(dirs[c]) # SlugOf(dirs[p[2]]) }

\* C27: when the tree a successful sync scanned holds two skill directories
\* of one name under different group directories, the registry has exactly
\* one row of that slug afterwards; the row holds the manifest, the parsed
\* fields and the github_url of the directory scanned last, and no row holds
\* the github_url of the other.
SlugCollision ==
    [][lastCall'.op = "sync_registry" /\ lastCall'.ok =>
          LET registry == REGISTRIES[reg_idx]
          IN  \A dirs \in { ScanOrder(registry.skills_path,
                                      Tree(registry.name, mirrors'[registry.name]).entries, 1) } :
              \A p \in Collisions(dirs) :
                  LET first == dirs[p[1]]
                      last == dirs[p[2]]
                      fm == ParseSkillFrontmatter(last.dir.md[1])
                      rows == RowsByKey(skills', registry.name, SlugOf(last))
                  IN  /\ Cardinality(rows) = 1
                      /\ \A i \in rows :
                            /\ skills'[i].skill_md = last.dir.md[1]
                            /\ skills'[i].name = fm.name
                            /\ skills'[i].description = fm.description
                            /\ skills'[i].version = fm.version
                            /\ skills'[i].github_url = <<UrlBase(registry.name), last.path>>
                      /\ \A i \in DOMAIN skills' :
                            skills'[i].github_url # <<UrlBase(registry.name), first.path>>]_vars

\* C27 witness: a sync of clawdhub scanned a tree where two groups hold a
\* directory of the same name with different manifests, and stored the row
SyncedCollidingTree ==
    /\ lastCall.op = "sync_registry"
    /\ lastCall.ok
    /\ \E k \in DOMAIN REGISTRIES :
          LET registry == REGISTRIES[k]
              dirs == ScanOrder(registry.skills_path,
                                Tree(registry.name, mirrors[registry.name]).entries, 1)
          IN  /\ registry.name = lastCall.args[1]
              /\ \E p \in Collisions(dirs) :
                    /\ dirs[p[1]].dir.md # dirs[p[2]].dir.md
                    /\ dirs[p[1]].path # dirs[p[2]].path
                    /\ RowsByKey(skills, registry.name, SlugOf(dirs[p[2]])) # {}

\* the fetch a completed sync_all_registries made, and the API's response
\* to its k-th request
Fetch == lastCall.ret[3]
Response(k) == Api(Fetch.scn, Fetch.asked[k])
FinalCursor == {None, Some("")}

\* the items of the pages 1..k, in the order received
RECURSIVE ItemsUpTo(_)
ItemsUpTo(k) == IF k = 0 THEN << >> ELSE ItemsUpTo(k - 1) \o Response(k).items

\* C28: the first request carries no cursor; each further request follows a
\* response with a non-empty nextCursor and carries that cursor; the loop
\* ends at the first response whose nextCursor is null or empty (or at the
\* first failed request) and at no other; the map then holds, for every
\* slug on any page, the stars of its last item.
PaginationExit ==
    lastCall.op = "sync_all_registries" /\ lastCall.ok =>
        \A n \in {Len(Fetch.asked)} :
            /\ n >= 1
            /\ Fetch.asked[1] = None
            /\ \A k \in 1..(n - 1) :
                  /\ Response(k).ok
                  /\ Response(k).next \notin FinalCursor
                  /\ Fetch.asked[k + 1] = Response(k).next
            /\ lastCall.ret[2] = Response(n).ok
            /\ Response(n).ok => Response(n).next \in FinalCursor
            /\ lastCall.ret[2] =>
                  \A items \in {ItemsUpTo(n)} :
                      /\ DOMAIN Fetch.map = { items[j][1] : j \in DOMAIN items }
                      /\ \A j \in DOMAIN items :
                            (\A h \in DOMAIN items : h > j => items[h][1] # items[j][1])
                               => Fetch.map[items[j][1]] = items[j][2]

\* C28 witness: a fetch of more than ten pages that ended at a null
\* nextCursor, a slug of the first page being listed again, with other
\* stars, on the last
FetchedManyPages ==
    /\ lastCall.op = "sync_all_registries"
    /\ lastCall.ok
    /\ lastCall.ret[2]
    /\ Len(Fetch.asked) > 10
    /\ Response(Len(Fetch.asked)).next = None
    /\ \E a \in DOMAIN Response(1).items :
       \E b \in DOMAIN Response(Len(Fetch.asked)).items :
          /\ Response(1).items[a][1] = Response(Len(Fetch.asked)).items[b][1]
          /\ Response(1).items[a][2] # Response(Len(Fetch.asked)).items[b][2]
          /\ Fetch.map[Response(1).items[a][1]] = Response(Len(Fetch.asked)).items[b][2]

\* C29: the refresh at the end of sync_all_registries adds and removes no
\* row and changes no field but stars; a row whose stars it changes is a
\* clawdhub row whose slug the fetch returned, and it then holds the
\* fetched value.
RefreshScope ==
    [][pc = "stars" /\ lastCall'.op = "sync_all_registries" =>
          /\ Len(skills') = Len(skills)
          /\ \A i \in DOMAIN skills :
                /\ [skills'[i] EXCEPT !.stars = skills[i].stars] = skills[i]
                /\ skills'[i].stars # skills[i].stars =>
                      /\ skills[i].registry = "clawdhub"
                      /\ lastCall'.ret[2]
                      /\ skills[i].slug \in DOMAIN lastCall'.ret[3].map
                      /\ skills'[i].stars = lastCall'.ret[3].map[skills[i].slug]]_vars

\* C29 witness: a refresh fetched a slug that has no row and a slug that a
\* clawdhub row and a row of another registry share; the clawdhub row holds
\* the fetched stars, the other row does not
RefreshedSharedSlug ==
    /\ lastCall.op = "sync_all_registries"
    /\ lastCall.ok
    /\ lastCall.ret[2]
    /\ \E slug \in DOMAIN Fetch.map : RowsBySlug(skills, slug) = {}
    /\ \E i, j \in DOMAIN skills :
          /\ skills[i].registry = "clawdhub"
          /\ skills[j].registry # "clawdhub"
          /\ skills[i].slug = skills[j].slug
          /\ skills[i].slug \in DOMAIN Fetch.map
          /\ skills[i].stars = Fetch.map[skills[i].slug]
          /\ skills[j].stars # Fetch.map[skills[i].slug]

\* the rows a complete scan of registry's mirror upserts: those of the
\* registry whose slug is the name of a readable skill directory
Upserted(rows, mirror, registry) ==
    { i \in DOMAIN rows :
        /\ rows[i].registry = registry.name
        /\ \E dirs \in { ScanOrder(registry.skills_path,
                                   Tree(registry.name, mirror[registry.name]).entries, 1) } :
              \E k \in DOMAIN dirs : SlugOf(dirs[k]) = rows[i].slug }

\* C30: every row a registry's sync adds or changes has stars 0, and when
\* the sync succeeds every row its scan upserted has; when
\* sync_all_registries ends, every row upserted by a registry
\* sync that succeeded holds the stars the refresh fetched for it if it is
\* a clawdhub row, the fetch succeeded and returned its slug, and 0
\* otherwise.
StarsAfterSync ==
    [][/\ lastCall'.op = "sync_registry" =>
             \A i \in DOMAIN skills' :
                 i \notin DOMAIN skills \/ skills'[i] # skills[i] => skills'[i].stars = 0
       /\ lastCall'.op = "sync_registry" /\ lastCall'.ok =>
             \A i \in Upserted(skills', mirrors', REGISTRIES[reg_idx]) : skills'[i].stars = 0
       /\ pc = "stars" /\ lastCall'.op = "sync_all_registries" =>
             \A k \in DOMAIN REGISTRIES :
                 (\E a \in DOMAIN attempted : attempted[a] = <<REGISTRIES[k].name, TRUE>>) =>
                     \A i \in Upserted(skills', mirrors', REGISTRIES[k]) :
                         skills'[i].stars =
                            IF /\ REGISTRIES[k].name = "clawdhub"
                               /\ lastCall'.ret[2]
                               /\ skills'[i].slug \in DOMAIN lastCall'.ret[3].map
                            THEN lastCall'.ret[3].map[skills'[i].slug]
                            ELSE 0]_vars

\* C30 witness: a sync of a registry whose row held fetched stars has
\* scanned the row again, and the row has stars 0
ScanResetStars ==
    /\ lastCall.op = "sync_registry"
    /\ lastCall.ok
    /\ \E n \in lastCall.old[1] : n > 0
    /\ \E k \in DOMAIN REGISTRIES :
          /\ REGISTRIES[k].name = lastCall.args[1]
          /\ Upserted(skills, mirrors, REGISTRIES[k]) # {}
          /\ \A i \in Upserted(skills, mirrors, REGISTRIES[k]) : skills[i].stars = 0

\* C31: when a request of the refresh fails, the refresh changes no row,
\* whatever the earlier pages held, and sync_all_registries still returns
\* Ok.
RefreshAllOrNothing ==
    [][pc = "stars" /\ lastCall'.op = "sync_all_registries" /\ ~lastCall'.ret[2] =>
          /\ skills' = skills
          /\ lastCall'.ok]_vars

\* C31 witness: the second request of a refresh failed after the first page
\* listed, with other stars, the slug of a clawdhub row
FailedAfterFirstPage ==
    /\ lastCall.op = "sync_all_registries"
    /\ lastCall.ok
    /\ ~lastCall.ret[2]
    /\ Len(Fetch.asked) >= 2
    /\ \E i \in DOMAIN skills : \E k \in DOMAIN Response(1).items :
          /\ skills[i].registry = "clawdhub"
          /\ skills[i].slug = Response(1).items[k][1]
          /\ skills[i].stars # Response(1).items[k][2]

(***************************************************************************)
(* Properties of the returned id, checked under SpecStore                  *)
(***************************************************************************)

\* C26: upsert_skill returns the id of the row its (registry, slug) names,
\* when it inserts the row and when it updates it, whatever upserts the
\* connection ran before.
UpsertReturnsRowId ==
    lastCall.op = "upsert_skill" /\ lastCall.ok =>
        \E i \in RowsByKey(skills, lastCall.args[1].registry, lastCall.args[1].slug) :
            lastCall.ret = Some(skills[i].id)

(***************************************************************************)
(* Properties of the sync command, checked under SpecCli                  *)
(***************************************************************************)

\* the rows after a complete scan of revision rev of registry's tree
RowsScanned(rows, registry, rev, t) ==
    ScanSkillsDir([rows |-> rows, rowid |-> 0], registry,
                  Tree(registry.name, rev).entries, 1, 0, t).rows

\* C33: every step of a sync, forced or not, is determined by the rows, the
\* mirrors, the upstream trees and what git and the API do, the sync state
\* and the force flag having no part in it: a registry's step runs the git
\* commands its mirror calls for and, when they succeed and the skills path
\* exists, leaves the rows of a scan of the mirror; the refresh leaves the
\* rows of the fetch; the rebuild leaves the documents of the rows.
SyncIgnoresSyncState ==
    [][/\ pc = "registries" /\ lastCall'.op = "sync_registry" =>
             \E git \in GitOutcomes :
             \E registry \in { REGISTRIES[reg_idx] } :
             \E acq \in { Acquire(mirrors[registry.name], git,
                                  Upstream(registry.name, now)) } :
                 /\ lastCall'.ret.git = acq.steps
                 /\ mirrors' = [mirrors EXCEPT ![registry.name] = acq.mirror]
                 /\ skills' = IF acq.ok /\ Tree(registry.name, acq.mirror).has_path
                              THEN RowsScanned(skills, registry, acq.mirror, now)
                              ELSE skills
                 /\ docs' = docs
       /\ pc = "stars" /\ lastCall'.op = "sync_all_registries" =>
             /\ \E scn \in ApiScenarios :
                   skills' = StarsRefreshed(skills, FetchPages(scn, None, << >>, << >>))
             /\ mirrors' = mirrors
             /\ docs' = docs
       /\ pc = "synced" =>
             /\ skills' = skills
             /\ mirrors' = mirrors
             /\ \/ docs' = docs /\ lastCall'.op = "main" /\ ~lastCall'.ok
                \/ /\ Len(docs') = Len(skills)
                   /\ \A i \in DOMAIN skills : \E k \in DOMAIN docs' : docs'[k] = Doc(skills[i])]_vars

\* C33 witness: in a forced sync, the first registry has been pulled and
\* scanned again while the entry of a later registry, which has a mirror
\* and a row from an earlier sync, is cleared
ForcedSyncPulled ==
    /\ cmd # None
    /\ cmd[1].command.name = "sync"
    /\ cmd[1].command.force
    /\ cmd[1].stage = "sync"
    /\ lastCall.op = "sync_registry"
    /\ lastCall.ok
    /\ lastCall.ret.git = << <<"pull", "ok">> >>
    /\ \E r \in RegNames \ {lastCall.args[1]} :
          /\ sync_state[r] = None
          /\ mirrors[r] # 0
          /\ \E i \in DOMAIN skills : skills[i].registry = r

\* C34: inside a sync, the registries are synced one at a time in
\* configuration order; the popularity refresh runs only after every
\* registry has been attempted; the index is changed only by the step that
\* follows the return of sync_all_registries, and not at all when
\* sync_skillssh or the rebuild fails; and a sync command that exits
\* successfully leaves in the index one document for every row of the
\* Store.
SyncOrdering ==
    [][cmd # None =>
          /\ lastCall'.op = "sync_registry" /\ pc = "registries" =>
                /\ Len(attempted) < Len(REGISTRIES)
                /\ AttemptedNames(attempted) = FirstRegistries(Len(attempted))
                /\ lastCall'.args[1] = REGISTRIES[Len(attempted) + 1].name
                /\ docs' = docs
          /\ lastCall'.op = "sync_all_registries" /\ pc = "stars" =>
                /\ AttemptedNames(attempted) = FirstRegistries(Len(REGISTRIES))
                /\ lastCall'.ret[1] = attempted
                /\ docs' = docs
          /\ docs' # docs =>
                /\ pc = "synced"
                /\ lastCall.op = "sync_all_registries"
                /\ lastCall.ok
                /\ lastCall'.ok
          /\ pc = "synced" /\ lastCall'.op = "main" /\ lastCall'.ok =>
                /\ lastCall'.args[1].name = "sync"
                /\ lastCall.op = "sync_all_registries"
                /\ Len(docs') = Len(skills')
                /\ \A i \in DOMAIN skills' : Cardinality(DocsOf(docs', skills'[i])) = 1]_vars

\* C34 witness: a sync command that did not bootstrap has exited
\* successfully, the Store holds rows of two registries, and the index
\* holds a document for each
SyncCommandCompleted ==
    /\ lastCall.op = "main"
    /\ lastCall.ok
    /\ lastCall.args[1].name = "sync"
    /\ ~lastCall.ret.booted
    /\ lastCall.ret.out = <<"Sync complete">>
    /\ \E i, j \in DOMAIN skills : skills[i].registry # skills[j].registry
    /\ \A i \in DOMAIN skills : DocsOf(docs, skills[i]) # {}

(***************************************************************************)
(* Properties of the directory scan, checked under SpecScan                *)
(***************************************************************************)

\* C35: a scan that completes leaves rows for exactly the skill directories
\* of the tree, taken entry by entry: an entry that is a directory holding a
\* manifest is a skill directory itself, and of an entry that is a directory
\* without one each sub-directory holding a manifest is; files are skipped,
\* both layouts may occur in one tree, and a directory whose processing
\* fails is left out without ending the scan.  Each such directory that can
\* be processed has a row of its name, holding its path and manifest unless
\* a directory of the same name is scanned later; there is no other row.
ScanLayouts ==
    [][lastCall'.op = "scan_skills_dir" /\ lastCall'.ok =>
          \A k \in DOMAIN REGISTRIES :
          REGISTRIES[k].name = lastCall'.args[1] =>
          \A dirs \in { ScanOrder(REGISTRIES[k].skills_path, lastCall'.args[2], 1) } :
              /\ \A d \in DOMAIN dirs :
                    /\ RowsByKey(skills', REGISTRIES[k].name, SlugOf(dirs[d])) # {}
                    /\ (\A c \in DOMAIN dirs : c > d => SlugOf(dirs[c]) # SlugOf(dirs[d])) =>
                          \A i \in RowsByKey(skills', REGISTRIES[k].name, SlugOf(dirs[d])) :
                             /\ skills'[i].github_url =
                                   <<UrlBase(REGISTRIES[k].name), dirs[d].path>>
                             /\ skills'[i].skill_md = dirs[d].dir.md[1]
              /\ \A i \in DOMAIN skills' :
                    /\ skills'[i].registry = REGISTRIES[k].name
                    /\ \E d \in DOMAIN dirs : skills'[i].slug = SlugOf(dirs[d])
              /\ Len(skills') = Cardinality({ SlugOf(dirs[d]) : d \in DOMAIN dirs })]_vars

\* C35 witness: a completed scan of a tree whose first entry is a skill
\* directory that cannot be processed, followed by a flat skill directory
\* and by a group directory; the Store holds a row for a flat and a row for
\* a grouped skill directory, the latter scanned after an unreadable one of
\* its group
MixedTreeScanned ==
    /\ lastCall.op = "scan_skills_dir"
    /\ lastCall.ok
    /\ Len(lastCall.args[2]) = 3
    /\ lastCall.args[2][1] = BadSkillDir("broken")
    /\ lastCall.args[2][2].md # None
    /\ lastCall.args[2][3].md = None
    /\ \E i, j \in DOMAIN skills :
          /\ Len(skills[i].github_url[2]) = Len(REGISTRIES[1].skills_path) + 1
          /\ Len(skills[j].github_url[2]) = Len(REGISTRIES[1].skills_path) + 2
          /\ skills[j].slug = "mail"

(***************************************************************************)
(* Properties of load, checked under SpecLoad                              *)
(***************************************************************************)

\* the dataset a load was given, and the two keys of an entry
Dataset == lastCall.args[1]
KeysOf(e) ==
    { QualityKey(e.registry, e.name), QualityKey(e.registry, ExtractSlugFromUrl(e.url)) }

\* every entry of the loaded dataset is returned under both of its keys
RetrievableUnderBothKeys ==
    \A i \in DOMAIN Dataset :
        /\ GetScore(lastCall.ret, Dataset[i].registry, Dataset[i].name)
              = Some(Dataset[i].score)
        /\ GetScore(lastCall.ret, Dataset[i].registry, ExtractSlugFromUrl(Dataset[i].url))
              = Some(Dataset[i].score)

\* C36 as stated: after load every entry of the dataset is retrievable
\* under both of its keys, whatever keys the entries of a registry share.
TwoKeysWhateverShared ==
    lastCall.op = "load" => RetrievableUnderBothKeys

\* C36: after load every entry of the dataset is retrievable under both of
\* its keys, the key of its name and the key of the last segment of its
\* url, when no two entries of the dataset have a key in common.
TwoKeysPerEntry ==
    lastCall.op = "load" =>
        ((\A i, j \in DOMAIN Dataset : i # j => KeysOf(Dataset[i]) \cap KeysOf(Dataset[j]) = {})
            => RetrievableUnderBothKeys)

\* C36 witness: a dataset of two entries of one registry has been loaded,
\* each with two keys of its own and a score of its own
LoadedTwoEntries ==
    /\ lastCall.op = "load"
    /\ Len(Dataset) = 2
    /\ Dataset[1].registry = Dataset[2].registry
    /\ Dataset[1].score # Dataset[2].score
    /\ Cardinality(KeysOf(Dataset[1]) \cup KeysOf(Dataset[2])) = 4
    /\ Len(lastCall.ret) = 4

====
